---------------------------- MODULE Spec2Model ----------------------------
(***************************************************************************)
(* TennoReporter (src/tenno_reporter.py, src/cloud_runner.py): the polling *)
(* cycle, the dedup ledger, the webhook notifier and the two schedulers    *)
(* (HeadlessReporter.loop_forever and the GUI's worker/refresh threads).   *)
(*                                                                         *)
(* Time is kept in whole seconds (time.time()) and milliseconds (now_ms()).*)
(* The model's clock only takes multiples of Day.                          *)
(***************************************************************************)
EXTENDS Integers, Sequences, FiniteSets, TLC

(***************************************************************************)
(* Bounds of the model (not program constants).                            *)
(***************************************************************************)
\* the clock runs from StartDay to MaxDay days, in steps of TickDays
MaxDay == 6
TickDays == 2
\* depth at which the recursion of post_discord is cut (the interpreter's
\* recursion limit plays this role in the program)
MaxPostDepth == 3
\* fetch threads a run abandons at a join timeout
MaxLate == 1
\* threads (worker loops and manual refreshes) the GUI starts in a run
MaxGuiThreads == 2

\* items in the item list of a reward handed to _reward_is_rare
MaxItems == 2

\* "count" and "goal" of a contest range over -MaxCount..MaxCount
MaxCount == 7

\* a fetch thread takes 5, 10, ..., 5 * MaxDur seconds
MaxDur == 9

\* records in a document handed to a normalizer on its own
MaxRecords == 2

\* last day of the clock of the long run, whose clock advances by more than
\* the retention window at a time
MaxFarDay == 12

(***************************************************************************)
(* Program constants.                                                      *)
(***************************************************************************)
Day == 86400
RetentionDays == 3
PreWindowSecs == 259200
DefaultRetryAfter == 5
CHECK_EVERY == 60

\* t.join(timeout=20)
JoinTimeout == 20

\* the model's first clock reading, in days: late enough for a loaded entry
\* to be older than the retention window
StartDay == RetentionDays + 1

(***************************************************************************)
(* JSON values.  An upstream object is a record carrying the fields the    *)
(* upstream sent plus the tag "json" (the Python type the decoder gives).  *)
(***************************************************************************)
Null == [json |-> "null"]

Get(obj, key, default) == IF key \in DOMAIN obj THEN obj[key] ELSE default

IsDict(v) == v.json = "object"

IsList(v) == v.json = "list"

\* Python truthiness of a decoded list element: None and {} are falsy
Truthy(v) ==
    CASE v.json = "null"   -> FALSE
      [] v.json = "object" -> DOMAIN v # {"json"}
      [] v.json = "list"   -> v.items # << >>
      [] OTHER             -> TRUE

(***************************************************************************)
(* Strings whose characters the program inspects (item names, keywords)    *)
(* are sequences of one-character strings.                                 *)
(***************************************************************************)
Contains(name, kw) ==
    \E i \in 1..(Len(name) - Len(kw) + 1) : SubSeq(name, i, i + Len(kw) - 1) = kw

RARE_REWARD_TYPES ==
    { <<"O","r","o","k","i","n","C","a","t","a","l","y","s","t">>,
      <<"O","r","o","k","i","n","R","e","a","c","t","o","r">>,
      <<"F","o","r","m","a">>,
      <<"A","u","r","a","F","o","r","m","a">>,
      <<"R","i","v","e","n">>,
      <<"A","l","a","d","C","o","o","r","d","i","n","a","t","e">>,
      <<"S","e","n","t","i","n","e","l","W","e","a","p","o","n","B","P">> }

\* it.get("uniqueName", "") or it.get("type", "")
ItemName(it) ==
    LET un == Get(it, "uniqueName", << >>)
    IN IF un # << >> THEN un ELSE Get(it, "type", << >>)

\* a loop that looks at the first item only
RareItemsFirst(items) ==
    IF items = << >> THEN "F"
    ELSE IF ~IsDict(Head(items)) THEN "X"
    ELSE IF \E kw \in RARE_REWARD_TYPES : Contains(ItemName(Head(items)), kw)
         THEN "T" ELSE "F"

\* the for loop of _reward_is_rare: "T" rare, "F" not rare, "X" an
\* AttributeError (an item that is no object)
RECURSIVE RareItems(_)
RareItems(items) ==
    IF items = << >> THEN "F"
    ELSE LET it == Head(items) IN
         IF ~IsDict(it) THEN "X"
         ELSE LET un   == Get(it, "uniqueName", << >>)
                  name == IF un # << >> THEN un ELSE Get(it, "type", << >>)
              IN IF \E kw \in RARE_REWARD_TYPES : Contains(name, kw)
                 THEN "T"
                 ELSE RareItems(Tail(items))

\* a classifier that takes a reward without items for a rare one
_reward_is_rareEmpty(reward_obj) ==
    IF ~IsDict(reward_obj) THEN "F"
    ELSE IF Get(reward_obj, "items", << >>) = << >> THEN "T"
    ELSE RareItems(Get(reward_obj, "items", << >>))

_reward_is_rare(reward_obj) ==
    IF ~IsDict(reward_obj) THEN "F"
    ELSE LET items0 == Get(reward_obj, "items", << >>)
             items  == IF items0 = << >>
                       THEN Get(reward_obj, "countedItems", << >>)
                       ELSE items0
         IN RareItems(items)

(***************************************************************************)
(* Clock readings and ISO timestamps.  The upstream sends ISO strings; the *)
(* ones the model's documents use are listed with the instant they name.   *)
(***************************************************************************)
IsoDay(d) ==
    CASE d = 3  -> "1970-01-04T00:00:00.000Z"
      [] d = 4  -> "1970-01-05T00:00:00.000Z"
      [] d = 5  -> "1970-01-06T00:00:00.000Z"
      [] d = 6  -> "1970-01-07T00:00:00.000Z"
      [] d = 7  -> "1970-01-08T00:00:00.000Z"
      [] d = 8  -> "1970-01-09T00:00:00.000Z"
      [] d = 9  -> "1970-01-10T00:00:00.000Z"
      [] d = 10 -> "1970-01-11T00:00:00.000Z"
      [] d = 11 -> "1970-01-12T00:00:00.000Z"
      [] d = 12 -> "1970-01-13T00:00:00.000Z"

IsoDays == 3..12

\* a parse that knows no timestamp
_parse_iso_msZero(s) == 0

\* datetime.fromisoformat(s.replace("Z", "+00:00")).timestamp(), in seconds;
\* -1 stands for the ValueError of a string that is no ISO timestamp
FromIso(s) ==
    IF \E d \in IsoDays : IsoDay(d) = s
    THEN (CHOOSE d \in IsoDays : IsoDay(d) = s) * Day
    ELSE -1

_parse_iso_ms(s) ==
    IF s = "" THEN 0
    ELSE IF FromIso(s) < 0 THEN 0
    ELSE FromIso(s) * 1000

now_ms(clk) == clk * 1000

(***************************************************************************)
(* Normalizers.  Each returns [ok, val]: ok = FALSE when the code raises   *)
(* (the fetch thread then dies without writing its result), val the list   *)
(* of candidate records.  Of a candidate only the fields that decide       *)
(* control flow and keys are kept; display-only fields are left out.       *)
(* Labels the source writes in Chinese are written in ASCII.               *)
(***************************************************************************)
Raised == [ok |-> FALSE, val |-> << >>]

Returned(v) == [ok |-> TRUE, val |-> v]

JNum(n) == [json |-> "number", n |-> n]

EmptyObj == [json |-> "object"]

RECURSIVE TradersLoop(_, _)
TradersLoop(data, cur) ==
    IF data = << >> THEN Returned(<< >>)
    ELSE LET t    == Head(data)
             rest == TradersLoop(Tail(data), cur)
         IN IF ~Truthy(t) THEN rest
            ELSE IF ~IsDict(t) THEN Raised
            ELSE LET exp_ms == _parse_iso_ms(Get(t, "expiry", ""))
                     act_ms == _parse_iso_ms(Get(t, "activation", ""))
                 IN IF exp_ms # 0 /\ cur > exp_ms THEN rest
                    ELSE IF ~rest.ok THEN Raised
                    ELSE Returned(<< [oid    |-> Get(t, "id", ""),
                                      act_ms |-> act_ms,
                                      exp_ms |-> exp_ms] >> \o rest.val)

\* data is what _get returned: a decoded document, or Null (None)
fetch_traders(data, clk) ==
    LET list == IF IsList(data) THEN data.items
                ELSE IF IsDict(data) THEN << data >> ELSE << >>
    IN TradersLoop(list, now_ms(clk))

Abs(n) == IF n < 0 THEN -n ELSE n

\* a clamp that lets the goal through as it is
MaxFirst(a, b) == a

Max(a, b) == IF a >= b THEN a ELSE b

\* one pass of the for loop of fetch_invasions: "skip" (continue), "raise",
\* or "keep" with the candidate
InvasionStep(inv) ==
    IF ~IsDict(inv) THEN [r |-> "raise"]
    ELSE IF Get(inv, "completed", FALSE) THEN [r |-> "skip"]
    ELSE LET attacker == Get(inv, "attacker", EmptyObj)
             defender == Get(inv, "defender", EmptyObj)
         IN IF ~IsDict(attacker) \/ ~IsDict(defender) THEN [r |-> "raise"]
            ELSE LET atk_reward == Get(attacker, "reward", EmptyObj)
                     def_reward == Get(defender, "reward", EmptyObj)
                     ra == _reward_is_rare(atk_reward)
                     rd == _reward_is_rare(def_reward)
                     count == Get(inv, "count", JNum(0))
                     goal  == Get(inv, "goal", JNum(1))
                 IN IF ra = "X" THEN [r |-> "raise"]
                    ELSE IF ra = "F" /\ rd = "X" THEN [r |-> "raise"]
                    ELSE IF ra = "F" /\ rd = "F" THEN [r |-> "skip"]
                    ELSE IF count.json # "number" \/ goal.json # "number"
                         THEN [r |-> "raise"]
                    ELSE [r |-> "keep",
                          c |-> [oid      |-> Get(inv, "id", ""),
                                 \* progress = count / goal * 100, kept as a
                                 \* fraction
                                 prog_num |-> Abs(count.n) * 100,
                                 prog_den |-> Max(goal.n, 1)]]

RECURSIVE InvasionsLoop(_)
InvasionsLoop(data) ==
    IF data = << >> THEN Returned(<< >>)
    ELSE LET step == InvasionStep(Head(data))
             rest == InvasionsLoop(Tail(data))
         IN IF step.r = "raise" \/ ~rest.ok THEN Raised
            ELSE IF step.r = "skip" THEN rest
            ELSE Returned(<< step.c >> \o rest.val)

fetch_invasions(data) ==
    IF ~IsList(data) THEN Returned(<< >>) ELSE InvasionsLoop(data.items)

\* str.lower() on the letters the documents use
Lower(c) ==
    CASE c = "A" -> "a" [] c = "B" -> "b" [] c = "C" -> "c" [] c = "D" -> "d"
      [] c = "E" -> "e" [] c = "F" -> "f" [] c = "G" -> "g" [] c = "H" -> "h"
      [] c = "I" -> "i" [] c = "J" -> "j" [] c = "K" -> "k" [] c = "L" -> "l"
      [] c = "M" -> "m" [] c = "N" -> "n" [] c = "O" -> "o" [] c = "P" -> "p"
      [] c = "Q" -> "q" [] c = "R" -> "r" [] c = "S" -> "s" [] c = "T" -> "t"
      [] c = "U" -> "u" [] c = "V" -> "v" [] c = "W" -> "w" [] c = "X" -> "x"
      [] c = "Y" -> "y" [] c = "Z" -> "z" [] OTHER -> c

LowerStr(str) == [i \in 1..Len(str) |-> Lower(str[i])]

\* WATCHED_NODES in insertion order: keyword, display label
WATCHED_NODES ==
    << [keyword |-> <<"m","o","t">>,                     label |-> "Mot (Void)"],
       [keyword |-> <<"a","n","i">>,                     label |-> "Ani (Void)"],
       [keyword |-> <<"o","l","y","m","p","u","s">>,     label |-> "Olympus (Mars)"],
       [keyword |-> <<"s","t","e","p","h","a","n","o">>, label |-> "Stephano (Uranus)"],
       [keyword |-> <<"k","a","p","p","a">>,             label |-> "Kappa (Sedna)"] >>

\* the first matching keyword's label, "" for matched_label = None
MatchedLabel(node_lower) ==
    LET hits == { i \in 1..Len(WATCHED_NODES) :
                    Contains(node_lower, WATCHED_NODES[i].keyword) }
    IN IF hits = {} THEN ""
       ELSE WATCHED_NODES[CHOOSE i \in hits : \A j \in hits : i <= j].label

FissureStep(m, cur) ==
    IF ~IsDict(m) THEN [r |-> "raise"]
    ELSE IF ~Get(m, "isHard", FALSE) THEN [r |-> "skip"]
    ELSE IF ~Get(m, "active", TRUE) THEN [r |-> "skip"]
    ELSE LET matched_label == MatchedLabel(LowerStr(Get(m, "node", << >>)))
             exp_ms        == _parse_iso_ms(Get(m, "expiry", ""))
         IN IF matched_label = "" THEN [r |-> "skip"]
            ELSE IF exp_ms # 0 /\ cur > exp_ms THEN [r |-> "skip"]
            ELSE [r |-> "keep",
                  c |-> [oid        |-> Get(m, "id", ""),
                         node_label |-> matched_label]]

RECURSIVE FissuresLoop(_, _)
FissuresLoop(data, cur) ==
    IF data = << >> THEN Returned(<< >>)
    ELSE LET step == FissureStep(Head(data), cur)
             rest == FissuresLoop(Tail(data), cur)
         IN IF step.r = "raise" \/ ~rest.ok THEN Raised
            ELSE IF step.r = "skip" THEN rest
            ELSE Returned(<< step.c >> \o rest.val)

fetch_fissures(data, clk) ==
    IF ~IsList(data) THEN Returned(<< >>)
    ELSE FissuresLoop(data.items, now_ms(clk))

\* exp[:16].replace("T", " ") if len(exp) > 10 else exp, on the strings the
\* documents use
ExpLabel(exp) ==
    IF \E d \in IsoDays : IsoDay(d) = exp
    THEN LET d == CHOOSE dd \in IsoDays : IsoDay(dd) = exp
         IN CASE d = 3  -> "1970-01-04 00:00" [] d = 4  -> "1970-01-05 00:00"
              [] d = 5  -> "1970-01-06 00:00" [] d = 6  -> "1970-01-07 00:00"
              [] d = 7  -> "1970-01-08 00:00" [] d = 8  -> "1970-01-09 00:00"
              [] d = 9  -> "1970-01-10 00:00" [] d = 10 -> "1970-01-11 00:00"
              [] d = 11 -> "1970-01-12 00:00" [] d = 12 -> "1970-01-13 00:00"
    ELSE exp

\* one entry of the mappings loop of fetch_weather; planet and state labels
\* in ASCII
CycleEntry(ws, key, planet, flag, on, off) ==
    LET obj == Get(ws, key, EmptyObj)
    IN IF ~Truthy(obj) THEN << >>
       ELSE << [planet     |-> planet,
                state      |-> IF Get(obj, flag, TRUE) THEN on ELSE off,
                next_state |-> IF Get(obj, flag, TRUE) THEN off ELSE on,
                expiry     |-> ExpLabel(Get(obj, "expiry", "-"))] >>

CambionEntry(ws) ==
    LET cambion == Get(ws, "cambionCycle", EmptyObj)
        s       == Get(cambion, "state", "fass")
    IN IF ~Truthy(cambion) THEN << >>
       ELSE << [planet     |-> "Mars",
                state      |-> CASE s = "fass" -> "Fass" [] s = "vome" -> "Vome"
                                 [] OTHER -> s,
                next_state |-> CASE s = "fass" -> "Vome" [] s = "vome" -> "Fass"
                                 [] OTHER -> "",
                expiry     |-> ExpLabel(Get(cambion, "expiry", "-"))] >>

\* ws is what _get("") returned
fetch_weather(ws) ==
    IF ~IsDict(ws) THEN << >>
    ELSE CycleEntry(ws, "earthCycle",  "Earth",        "isDay",  "Day",  "Night")
      \o CycleEntry(ws, "cetusCycle",  "Earth plains", "isDay",  "Day",  "Night")
      \o CycleEntry(ws, "vallisCycle", "Venus",        "isWarm", "Warm", "Cold")
      \o CambionEntry(ws)

(***************************************************************************)
(* The fetcher.  An endpoint answers with a decoded document or fails; on  *)
(* any failure _get returns None.                                          *)
(***************************************************************************)
Answer(doc) == [k |-> "ok", doc |-> doc]

FetchFailures ==
    { [k |-> "timeout"], [k |-> "connection"], [k |-> "http_status"],
      [k |-> "decode"] }

_get(answer) == IF answer.k = "ok" THEN answer.doc ELSE Null

(***************************************************************************)
(* The notifier.  rs lists the webhook's answers to the successive POSTs   *)
(* of one call; the result is the trace of what the call did: "post" (one  *)
(* requests.post), "backoff" (the sleep before a retry), "pace" (the final *)
(* sleep of 0.6 s, one per frame), "recursion" (the recursion cut off).    *)
(***************************************************************************)
Http(code, body) == [k |-> "http", code |-> code, body |-> body]

\* bodies of a 429: retry_after given, the field absent, no JSON at all
RetryBody(secs) == [json |-> "object", retry_after |-> secs]

NoRetryBody == [json |-> "object"]

NotJson == [json |-> "invalid"]

WebhookAnswers ==
    { Http(200, NoRetryBody), Http(204, NoRetryBody), Http(500, NoRetryBody),
      Http(429, RetryBody(2)), Http(429, NoRetryBody), Http(429, NotJson),
      [k |-> "connection"], [k |-> "timeout"] }

RECURSIVE post_discordRetryAll(_, _)
\* a notifier that tries again after every POST that was not accepted
post_discordRetryAll(rs, depth) ==
    LET r == rs[depth]
        attempt == << [ev |-> "post", depth |-> depth] >>
        pace == << [ev |-> "pace", depth |-> depth] >>
    IN IF r.k = "http" /\ r.code \in {200, 204} THEN attempt \o pace
       ELSE IF depth >= MaxPostDepth THEN attempt \o pace
       ELSE attempt \o post_discordRetryAll(rs, depth + 1) \o pace

RECURSIVE post_discordNoBackoff(_, _)
\* a notifier that retries a rate-limited POST at once
post_discordNoBackoff(rs, depth) ==
    LET r == rs[depth]
        attempt == << [ev |-> "post", depth |-> depth] >>
        pace == << [ev |-> "pace", depth |-> depth] >>
    IN IF r.k = "http" /\ r.code = 429 /\ IsDict(r.body) /\ depth < MaxPostDepth
       THEN attempt \o post_discordNoBackoff(rs, depth + 1) \o pace
       ELSE attempt \o pace

RECURSIVE post_discord(_, _)
post_discord(rs, depth) ==
    LET r == rs[depth]
        attempt == << [ev |-> "post", depth |-> depth] >>
        pace == << [ev |-> "pace", depth |-> depth] >>
    IN IF r.k # "http" THEN attempt \o pace
       ELSE IF r.code \in {200, 204} THEN attempt \o pace
       ELSE IF r.code = 429
            THEN IF ~IsDict(r.body) THEN attempt \o pace
                 ELSE LET retry_after == Get(r.body, "retry_after",
                                             DefaultRetryAfter)
                          sleep == << [ev |-> "backoff", secs |-> retry_after] >>
                      IN IF depth >= MaxPostDepth
                         THEN attempt \o sleep
                              \o << [ev |-> "recursion", depth |-> depth] >>
                              \o pace
                         ELSE attempt \o sleep \o post_discord(rs, depth + 1)
                              \o pace
       ELSE attempt \o pace

\* the POSTs of one call, and whether one of them was accepted
Attempts(trace) == Len(SelectSeq(trace, LAMBDA e : e.ev = "post"))

Accepted(rs, trace) ==
    \E i \in 1..Len(trace) :
        /\ trace[i].ev = "post"
        /\ rs[trace[i].depth].k = "http"
        /\ rs[trace[i].depth].code \in {200, 204}

(***************************************************************************)
(* The ledger: a function from keys to the "ts" of their entry.            *)
(***************************************************************************)
EmptyLedger == [k \in {} |-> 0]

Mark(st, key, ts) ==
    [k \in DOMAIN st \cup {key} |-> IF k = key THEN ts ELSE st[k]]

\* a purge that removes nothing
StaleNone(st, clk) == {}

Stale(st, clk) == { k \in DOMAIN st : st[k] < clk - RetentionDays * Day }

\* a purge that empties the ledger
purge_oldAll(st, clk) == EmptyLedger

purge_old(st, clk) == [k \in DOMAIN st \ Stale(st, clk) |-> st[k]]

\* 0 < (act - cur) / 1000 <= 259200
\* a pre-announcement window that is always open
PreDueAlways(act, cur) == TRUE

PreDue(act, cur) == 0 < act - cur /\ act - cur <= PreWindowSecs * 1000

ArriveDue(act, cur) == cur >= act

(***************************************************************************)
(* Upstream documents the endpoints may serve.                             *)
(***************************************************************************)
Obj(fields) == [json |-> "object"] @@ fields

List(items) == [json |-> "list", items |-> items]

TraderA == Obj([id |-> "a", activation |-> IsoDay(StartDay + 2),
                expiry |-> IsoDay(StartDay + 5)])

TraderLanded == Obj([id |-> "a", activation |-> IsoDay(StartDay),
                     expiry |-> IsoDay(StartDay + 1)])

TraderDocs ==
    { List(<< TraderA, Null, TraderA >>),
      TraderLanded }

Item(unique, type) == Obj([uniqueName |-> unique, type |-> type])

Reward(items) == Obj([items |-> items])

RivenItem == Item(<<"/","R","i","v","e","n","M","o","d">>, <<"R","i","v","e","n">>)

PlainItem == Item(<<"/","F","i","e","l","d","r","o","n">>, <<"F","i","e","l","d","r","o","n">>)

Invasion(id, completed, atkItems, defItems) ==
    Obj([id |-> id, completed |-> completed,
         attacker |-> Obj([reward |-> Reward(atkItems)]),
         defender |-> Obj([reward |-> Reward(defItems)]),
         count |-> JNum(-7), goal |-> JNum(0)])

InvasionNoId ==
    Obj([completed |-> FALSE,
         attacker |-> Obj([reward |-> Reward(<< RivenItem >>)]),
         defender |-> Obj([reward |-> Reward(<< >>)]),
         count |-> JNum(3), goal |-> JNum(10)])

\* one rare and one non-rare contest
FixtureInvasions ==
    List(<< Invasion("a", FALSE, << PlainItem >>, << RivenItem >>),
            Invasion("b", FALSE, << PlainItem >>, << >>) >>)

InvasionDocs ==
    { FixtureInvasions,
      List(<< InvasionNoId,
              Invasion("r1", FALSE, << >>, << RivenItem >>),
              Invasion("c", TRUE, << RivenItem >>, << >>),
              Invasion("r1", FALSE, << >>, << RivenItem >>) >>) }

Fissure(id, hard, node) ==
    Obj([id |-> id, isHard |-> hard, node |-> node,
         expiry |-> IsoDay(StartDay + 6)])

NodeMot == <<"M","o","t"," ","(","V","o","i","d",")">>

NodeAni == <<"A","n","i"," ","(","V","o","i","d",")">>

NodeKappa == <<"K","a","p","p","a"," ","(","S","e","d","n","a",")">>

NodeOther == <<"H","e","p","i","t"," ","(","V","o","i","d",")">>

FissureNoId ==
    Obj([isHard |-> TRUE, node |-> NodeAni, expiry |-> IsoDay(StartDay + 6)])

\* three rifts that pass the filters, one that is not hard, one elsewhere
FullWave ==
    List(<< Fissure("r1", TRUE, NodeMot), Fissure("r2", TRUE, NodeAni),
            Fissure("r3", TRUE, NodeKappa), Fissure("r4", FALSE, NodeMot),
            Fissure("r5", TRUE, NodeOther) >>)

FissureDocs ==
    { List(<< FissureNoId, Fissure("r1", TRUE, NodeMot) >>), FullWave }

CycleObj(flag, value, expiry) == Obj((flag :> value) @@ [expiry |-> expiry])

EarthDay ==
    Obj([earthCycle |-> CycleObj("isDay", TRUE, IsoDay(StartDay + 1)),
         cetusCycle |-> CycleObj("isDay", FALSE, IsoDay(StartDay + 1))])

\* day again, in a later window
EarthDayLater ==
    Obj([earthCycle |-> CycleObj("isDay", TRUE, IsoDay(StartDay + 3))])

\* a cycle object without "expiry"
EarthNightNoExpiry == Obj([earthCycle |-> Obj([isDay |-> FALSE])])

WeatherDocs ==
    { EarthDay,
      Obj([earthCycle |-> CycleObj("isDay", FALSE, IsoDay(StartDay + 2)),
           vallisCycle |-> CycleObj("isWarm", TRUE, "soon"),
           cambionCycle |-> Obj([state |-> "vome", expiry |-> "soon"])]) }

Pipelines == {"traders", "invasions", "fissures"}

Endpoints == Pipelines \cup {"weather"}

\* what an endpoint may answer in the headless model
Answers(k) ==
    CASE k = "traders"   -> {Answer(d) : d \in TraderDocs} \cup {[k |-> "timeout"]}
      [] k = "invasions" -> {Answer(d) : d \in InvasionDocs} \cup {[k |-> "http_status"]}
      [] k = "fissures"  -> {Answer(d) : d \in FissureDocs} \cup {[k |-> "connection"]}
      [] k = "weather"   -> {Answer(d) : d \in WeatherDocs} \cup {[k |-> "decode"]}

\* what the endpoints answer in the GUI model
GuiAnswers(k) ==
    CASE k = "traders"   -> {Answer(List(<< TraderA, TraderLanded >>))}
      [] k = "invasions" -> {Answer(FixtureInvasions)}
      [] k = "fissures"  -> {Answer(List(<< Fissure("r1", TRUE, NodeMot) >>))}
      [] k = "weather"   -> {Answer(EarthDay)}

\* the normalizer of a pipeline, applied to what _get returned
Normalize(k, data, clk) ==
    CASE k = "traders"   -> fetch_traders(data, clk)
      [] k = "invasions" -> fetch_invasions(data)
      [] k = "fissures"  -> fetch_fissures(data, clk)

\* the clock readings of the model
Clocks == { d * Day : d \in StartDay..Max(MaxDay, MaxFarDay) }

\* fn(log_fn) of the _fetch thread of pipeline k, for every answer of its
\* endpoint and every clock reading: the normalizer applied to what _get
\* returns
Fetched ==
    [k \in Pipelines |->
        [a \in Answers(k) \cup GuiAnswers(k) |->
            [clk \in Clocks |-> Normalize(k, _get(a), clk)]]]

(***************************************************************************)
(* State.                                                                  *)
(***************************************************************************)
VARIABLES
    mode,        \* which program runs: "headless", "gui", or "post" (one call
                 \* of the notifier on its own)
    clock,       \* time.time(), in seconds
    upstream,    \* what each endpoint answers at present
    disk,        \* STATE_FILE: [status: "missing" | "ok" | "corrupt", data]
    state,       \* the ledger in memory (self.state / self.state_data)
    th,          \* the threads that run cycles: pc and locals of each
    late,        \* fetch threads still running after their join returned
    running,     \* TennoReporterGUI.running
    next_check,  \* TennoReporterGUI.next_check
    post_in,     \* "post": the webhook's answers to the call
    post_out,    \* "post": the trace of the call, << >> before it
    call_in,     \* a function of the program on its own: its arguments
    call_out,    \* ... and what it returned, NotCalled before the call
    nbCount,     \* history: notifications issued per key by the stages that
                 \* test one key at a time (arrival, contest, cycle state)
    keyCats,     \* history: the categories that wrote each ledger key
    purged,      \* history: keys some purge has removed
    varying,     \* the endpoint whose answer changes during this run
    slow,        \* the pipelines whose fetch may outlast its join in this run
    abandoned,   \* history: fetch threads abandoned at a join timeout so far
    dirty        \* history: the clock, the upstream or the set of pipelines
                 \* joined in time changed since the last cycle began

vars == << mode, clock, upstream, disk, state, th, late, running, next_check,
           post_in, post_out, call_in, call_out, nbCount, keyCats, purged, varying, slow, abandoned, dirty >>

Main == 0

GuiThreads == 1..MaxGuiThreads

Threads == {Main} \cup GuiThreads

Dormant ==
    [pc |-> "none", role |-> "none",
     fetching |-> {}, results |-> [k \in Pipelines |-> << >>],
     traders |-> << >>, invasions |-> << >>, fissures |-> << >>,
     new_fissures |-> << >>, earth_weather |-> << >>, cur |-> 0, i |-> 0,
     last_ok |-> FALSE,
     \* history: what this cycle handed to post_discord; whether this cycle
     \* reads the documents and the clock of the one before; whether the one
     \* before reached its purge; the keys the last purge removed
     sent |-> << >>, repeat |-> FALSE, notified |-> FALSE, removed |-> {},
     \* history: the Earth cycle observed by the last poll that went through
     \* its weather stage
     last_weather |-> << >>]

\* th with the fields of thread t that upd names replaced
Upd(t, upd) == [th EXCEPT ![t] = upd @@ th[t]]

MaxClock == MaxDay * Day

OnDisk(data) == [status |-> "ok", data |-> data]

NoFile == [status |-> "missing", data |-> EmptyLedger]

CorruptFile == [status |-> "corrupt", data |-> EmptyLedger]

\* a ledger an earlier run may have left: a contest entry 4 days old and
\* two rifts of a wave, 1 day old
StoredLedgers ==
    { Mark(Mark(Mark(EmptyLedger, "a", (StartDay - 4) * Day),
                "r1", (StartDay - 1) * Day),
           "r2", (StartDay - 1) * Day) }

load_state(dsk) ==
    CASE dsk.status = "missing" -> Returned(EmptyLedger)
      [] dsk.status = "ok"      -> Returned(dsk.data)
      [] dsk.status = "corrupt" -> Raised

Bump(cnt, key) ==
    [k \in DOMAIN cnt \cup {key} |->
        IF k = key THEN (IF k \in DOMAIN cnt THEN cnt[k] + 1 ELSE 1) ELSE cnt[k]]

Wrote(cats, key, cat) ==
    [k \in DOMAIN cats \cup {key} |->
        IF k = key THEN (IF k \in DOMAIN cats THEN cats[k] \cup {cat} ELSE {cat})
        ELSE cats[k]]

\* a notification stage that never consults the ledger
UnseenAlways(key, st) == TRUE

Unseen(key, st) == key \notin DOMAIN st

HistUnchanged == UNCHANGED << nbCount, keyCats, purged, abandoned, dirty >>

GuiUnchanged == UNCHANGED << running, next_check >>

PostUnchanged == UNCHANGED << post_in, post_out, call_in, call_out >>

EnvUnchanged == UNCHANGED << mode, clock, upstream, varying, slow >>

Serving(t, i, f, w) ==
    [k \in Endpoints |->
        CASE k = "traders" -> t [] k = "invasions" -> i
          [] k = "fissures" -> f [] k = "weather" -> w]

\* what an endpoint may answer when a run starts: its first document, or
\* (a pipeline) its failure
StartAnswers(k) ==
    CASE k = "traders"   -> {Answer(List(<< TraderA, Null, TraderA >>)), [k |-> "timeout"]}
      [] k = "invasions" -> {Answer(FixtureInvasions), [k |-> "http_status"]}
      [] k = "fissures"  -> {Answer(FullWave), [k |-> "connection"]}
      [] k = "weather"   -> {Answer(EarthDay)}

StartUpstreams ==
    { Serving(t, i, f, w) : t \in StartAnswers("traders"),
                            i \in StartAnswers("invasions"),
                            f \in StartAnswers("fissures"),
                            w \in StartAnswers("weather") }

\* the upstream of the GUI model
GuiWorld == [k \in Endpoints |-> CHOOSE a \in GuiAnswers(k) : TRUE]

NotCalled == [done |-> FALSE]

Called(v) == [done |-> TRUE, val |-> v]

\* no function is called on its own
NoCall == call_in = << >> /\ call_out = NotCalled

InitCommon ==
    /\ clock = StartDay * Day
    /\ state = EmptyLedger
    /\ late = 0
    /\ running = FALSE
    /\ next_check = 0
    /\ nbCount = [k \in {} |-> 0]
    /\ keyCats = [k \in {} |-> {}]
    /\ purged = {}
    /\ abandoned = 0
    /\ dirty = FALSE

Init ==
    /\ mode = "headless"
    /\ InitCommon
    /\ upstream \in StartUpstreams
    /\ varying \in Endpoints
    /\ slow = {}
    /\ disk \in {NoFile, CorruptFile} \cup {OnDisk(l) : l \in StoredLedgers}
    /\ th = [t \in Threads |->
                IF t = Main THEN [Dormant EXCEPT !.pc = "boot", !.role = "main"]
                ELSE Dormant]
    /\ post_in = << >>
    /\ post_out = << >>
    /\ NoCall

(***************************************************************************)
(* Process start: HeadlessReporter.__init__ and TennoReporterGUI.__init__  *)
(* call load_state(); nothing catches what it raises.                      *)
(***************************************************************************)
Boot ==
    /\ th[Main].pc = "boot"
    /\ LET loaded == load_state(disk)
       IN IF loaded.ok
          THEN /\ state' = loaded.val
               /\ th' = Upd(Main, [pc |-> IF mode = "gui" THEN "ui" ELSE "idle"])
          ELSE /\ state' = state
               /\ th' = Upd(Main, [pc |-> "crashed"])
    /\ UNCHANGED << disk, late >>
    /\ EnvUnchanged /\ GuiUnchanged /\ PostUnchanged /\ HistUnchanged

(***************************************************************************)
(* process_data: three fetch threads, joined with a timeout each.          *)
(***************************************************************************)
\* run_once / _fetch_and_update enter process_data, which starts the threads
CycleStart(t) ==
    /\ th[t].pc = "idle"
    /\ th' = Upd(t, [pc |-> "poll",
                     fetching |-> Pipelines,
                     results |-> [k \in Pipelines |-> << >>],
                     sent |-> << >>,
                     repeat |-> ~dirty /\ th[t].notified,
                     notified |-> FALSE])
    /\ dirty' = FALSE
    /\ UNCHANGED << disk, state, late, nbCount, keyCats, purged, abandoned >>
    /\ EnvUnchanged /\ GuiUnchanged /\ PostUnchanged

\* Thread.start() raises (no thread can be started): process_data raises
ProcessDataRaise(t) ==
    /\ th[t].pc = "idle"
    /\ th' = Upd(t, [pc |-> "raise",
                     sent |-> << >>, repeat |-> FALSE, notified |-> FALSE])
    /\ UNCHANGED << disk, state, late >>
    /\ EnvUnchanged /\ GuiUnchanged /\ PostUnchanged /\ HistUnchanged

\* a fetch whose failure takes the results of the other pipelines with it
FetchThreadPoison(t, k) ==
    /\ th[t].pc = "poll"
    /\ k \in th[t].fetching
    /\ LET data == _get(upstream[k])
           res  == Normalize(k, data, clock)
       IN th' = Upd(t, [fetching |-> th[t].fetching \ {k},
                        results  |-> IF data = Null
                                     THEN [p \in Pipelines |-> << >>]
                                     ELSE IF res.ok
                                     THEN [th[t].results EXCEPT ![k] = res.val]
                                     ELSE th[t].results])
    /\ UNCHANGED << disk, state, late >>
    /\ EnvUnchanged /\ GuiUnchanged /\ PostUnchanged /\ HistUnchanged

\* the thread of pipeline k runs _fetch: results[key] = fn(log_fn); a
\* normalizer that raises ends the thread with nothing written
FetchThread(t, k) ==
    /\ th[t].pc = "poll"
    /\ k \in th[t].fetching
    /\ LET res == Fetched[k][upstream[k]][clock]
       IN th' = Upd(t, [fetching |-> th[t].fetching \ {k},
                        results  |-> IF res.ok
                                     THEN [th[t].results EXCEPT ![k] = res.val]
                                     ELSE th[t].results])
    /\ UNCHANGED << disk, state, late >>
    /\ EnvUnchanged /\ GuiUnchanged /\ PostUnchanged /\ HistUnchanged

\* results.get(key, []) for the three pipelines
JoinResults(results, fetching) ==
    [k \in Pipelines |-> IF k \in fetching THEN << >> ELSE results[k]]

\* the joins return, the threads done or their timeouts over; the caller
\* takes the results and do_discord_notifications reads cur = now_ms()
JoinAll(t) ==
    /\ th[t].pc = "poll"
    /\ th[t].fetching \subseteq slow
    /\ abandoned + Cardinality(th[t].fetching) <= MaxLate
    /\ LET got == JoinResults(th[t].results, th[t].fetching)
       IN th' = Upd(t, [pc |-> "traders", fetching |-> {},
                        results |-> [k \in Pipelines |-> << >>],
                        traders |-> got["traders"],
                        invasions |-> got["invasions"],
                        fissures |-> got["fissures"],
                        cur |-> now_ms(clock), i |-> 1,
                        repeat |-> th[t].repeat /\ th[t].fetching = {}])
    /\ late' = late + Cardinality(th[t].fetching)
    /\ abandoned' = abandoned + Cardinality(th[t].fetching)
    /\ dirty' = (dirty \/ th[t].fetching # {})
    /\ UNCHANGED << disk, state, nbCount, keyCats, purged >>
    /\ EnvUnchanged /\ GuiUnchanged /\ PostUnchanged

\* an abandoned fetch thread that writes into the results of the call that
\* is collecting when it ends (one results dict for all calls)
LateFetchDoneShared ==
    /\ late > 0
    /\ late' = late - 1
    /\ \E k \in slow :
          th' = [th EXCEPT ![Main].results[k] =
                               Fetched[k][upstream[k]][StartDay * Day]]
    /\ UNCHANGED << disk, state >>
    /\ EnvUnchanged /\ GuiUnchanged /\ PostUnchanged /\ HistUnchanged

\* an abandoned fetch thread ends; it writes into the results dict of the
\* call that started it, which nobody reads any more
LateFetchDone ==
    /\ late > 0
    /\ late' = late - 1
    /\ UNCHANGED << disk, state, th >>
    /\ EnvUnchanged /\ GuiUnchanged /\ PostUnchanged /\ HistUnchanged

(***************************************************************************)
(* do_discord_notifications, one step per check-and-deliver and one per    *)
(* mark: post_discord sleeps between the two.                              *)
(***************************************************************************)
\* the answers the webhook gives to the POSTs of one delivery
Steady(r) == [d \in 1..MaxPostDepth |-> r]

DeliveryAnswers ==
    { Steady(Http(200, NoRetryBody)), Steady(Http(500, NoRetryBody)),
      Steady(Http(429, RetryBody(2))) }

\* post_discord(embed, log_fn) for the notification of key in category cat
Deliver(t, cat, key, nextpc) ==
    \E rs \in DeliveryAnswers :
        th' = Upd(t, [pc |-> nextpc,
                      last_ok |-> Accepted(rs, post_discord(rs, 1)),
                      sent |-> Append(th[t].sent, [cat |-> cat, key |-> key])])

\* a mark that leaves the ledger as it is
MarkKeyNot(t, cat, key, upd) ==
    /\ state' = state
    /\ keyCats' = keyCats
    /\ th' = Upd(t, upd @@ [last_ok |-> FALSE])

\* a mark that stamps every entry of the ledger with the current time
MarkKeyTouch(t, cat, key, upd) ==
    /\ state' = [k \in DOMAIN state \cup {key} |-> clock]
    /\ keyCats' = Wrote(keyCats, key, cat)
    /\ th' = Upd(t, upd @@ [last_ok |-> FALSE])

\* a mark that is made only for a delivery the webhook accepted
MarkKeyIfOk(t, cat, key, upd) ==
    /\ state' = (IF th[t].last_ok THEN Mark(state, key, clock) ELSE state)
    /\ keyCats' = (IF th[t].last_ok THEN Wrote(keyCats, key, cat) ELSE keyCats)
    /\ th' = Upd(t, upd @@ [last_ok |-> FALSE])

\* state[key] = {"ts": time.time()}
MarkKey(t, cat, key, upd) ==
    /\ state' = Mark(state, key, clock)
    /\ keyCats' = Wrote(keyCats, key, cat)
    /\ th' = Upd(t, upd @@ [last_ok |-> FALSE])

NotifyFrame == UNCHANGED << disk, late >> /\ EnvUnchanged /\ GuiUnchanged
                   /\ PostUnchanged

pre_key(t) == "vt_pre_" \o th[t].traders[th[t].i].oid

arr_key(t) == "vt_arrive_" \o th[t].traders[th[t].i].oid

TraderPre(t) ==
    /\ th[t].pc = "traders"
    /\ \/ /\ th[t].i > Len(th[t].traders)
          /\ th' = Upd(t, [pc |-> "invasions", i |-> 1])
          /\ UNCHANGED nbCount
       \/ /\ th[t].i <= Len(th[t].traders)
          /\ PreDue(th[t].traders[th[t].i].act_ms, th[t].cur)
          /\ Unseen(pre_key(t), state)
          /\ Deliver(t, "pre", pre_key(t), "pre_mark")
          /\ nbCount' = Bump(nbCount, pre_key(t))
       \/ /\ th[t].i <= Len(th[t].traders)
          /\ ~(PreDue(th[t].traders[th[t].i].act_ms, th[t].cur)
               /\ Unseen(pre_key(t), state))
          /\ th' = Upd(t, [pc |-> "arrive"])
          /\ UNCHANGED nbCount
    /\ UNCHANGED << state, keyCats, purged, abandoned, dirty >>
    /\ NotifyFrame

TraderPreMark(t) ==
    /\ th[t].pc = "pre_mark"
    /\ MarkKey(t, "pre", pre_key(t), [pc |-> "arrive"])
    /\ UNCHANGED << nbCount, purged, abandoned, dirty >>
    /\ NotifyFrame

TraderArrive(t) ==
    /\ th[t].pc = "arrive"
    /\ \/ /\ ArriveDue(th[t].traders[th[t].i].act_ms, th[t].cur)
          /\ Unseen(arr_key(t), state)
          /\ Deliver(t, "arrive", arr_key(t), "arrive_mark")
          /\ nbCount' = Bump(nbCount, arr_key(t))
       \/ /\ ~(ArriveDue(th[t].traders[th[t].i].act_ms, th[t].cur)
               /\ Unseen(arr_key(t), state))
          /\ th' = Upd(t, [pc |-> "traders", i |-> th[t].i + 1])
          /\ UNCHANGED nbCount
    /\ UNCHANGED << state, keyCats, purged, abandoned, dirty >>
    /\ NotifyFrame

TraderArriveMark(t) ==
    /\ th[t].pc = "arrive_mark"
    /\ MarkKey(t, "arrive", arr_key(t), [pc |-> "traders", i |-> th[t].i + 1])
    /\ UNCHANGED << nbCount, purged, abandoned, dirty >>
    /\ NotifyFrame

inv_key(t) == th[t].invasions[th[t].i].oid

InvasionNotify(t) ==
    /\ th[t].pc = "invasions"
    /\ \/ /\ th[t].i > Len(th[t].invasions)
          /\ th' = Upd(t, [pc |-> "fissures", i |-> 1])
          /\ UNCHANGED nbCount
       \/ /\ th[t].i <= Len(th[t].invasions)
          /\ inv_key(t) # "" /\ Unseen(inv_key(t), state)
          /\ Deliver(t, "contest", inv_key(t), "inv_mark")
          /\ nbCount' = Bump(nbCount, inv_key(t))
       \/ /\ th[t].i <= Len(th[t].invasions)
          /\ ~(inv_key(t) # "" /\ Unseen(inv_key(t), state))
          /\ th' = Upd(t, [i |-> th[t].i + 1])
          /\ UNCHANGED nbCount
    /\ UNCHANGED << state, keyCats, purged, abandoned, dirty >>
    /\ NotifyFrame

InvasionMark(t) ==
    /\ th[t].pc = "inv_mark"
    /\ MarkKey(t, "contest", inv_key(t), [pc |-> "invasions", i |-> th[t].i + 1])
    /\ UNCHANGED << nbCount, purged, abandoned, dirty >>
    /\ NotifyFrame

\* a scan that takes every rift candidate for a new one
new_fissuresAll(fissures, st) == fissures

\* a scan that takes a rift without identity for a new one
new_fissuresAnon(fissures, st) ==
    SelectSeq(fissures, LAMBDA fs : fs.oid = "" \/ Unseen(fs.oid, st))

\* [fs for fs in fissures if fs["_oid"] and fs["_oid"] not in state]
new_fissures(fissures, st) ==
    SelectSeq(fissures, LAMBDA fs : fs.oid # "" /\ Unseen(fs.oid, st))

FissureScan(t) ==
    /\ th[t].pc = "fissures"
    /\ th' = Upd(t, [pc |-> IF new_fissures(th[t].fissures, state) # << >>
                            THEN "fis_post" ELSE "weather",
                     new_fissures |-> new_fissures(th[t].fissures, state),
                     i |-> 1])
    /\ UNCHANGED << state >>
    /\ NotifyFrame /\ HistUnchanged

\* a wave that walks the rift list from its end
fis_keyRev(t) == th[t].fissures[Len(th[t].fissures) + 1 - th[t].i].oid

fis_key(t) == th[t].fissures[th[t].i].oid

\* a rift stage that delivers only the rifts the ledger does not hold
FissurePostNew(t) ==
    /\ th[t].pc = "fis_post"
    /\ \/ /\ th[t].i > Len(th[t].fissures)
          /\ th' = Upd(t, [pc |-> "weather", i |-> 1])
       \/ /\ th[t].i <= Len(th[t].fissures)
          /\ Unseen(fis_key(t), state)
          /\ Deliver(t, "rift", fis_key(t), "fis_mark")
       \/ /\ th[t].i <= Len(th[t].fissures)
          /\ ~Unseen(fis_key(t), state)
          /\ th' = Upd(t, [i |-> th[t].i + 1])
    /\ UNCHANGED << state >>
    /\ NotifyFrame /\ HistUnchanged

FissurePost(t) ==
    /\ th[t].pc = "fis_post"
    /\ \/ /\ th[t].i > Len(th[t].fissures)
          /\ th' = Upd(t, [pc |-> "weather", i |-> 1])
       \/ /\ th[t].i <= Len(th[t].fissures)
          /\ Deliver(t, "rift", fis_key(t), "fis_mark")
    /\ UNCHANGED << state >>
    /\ NotifyFrame /\ HistUnchanged

FissureMark(t) ==
    /\ th[t].pc = "fis_mark"
    /\ IF fis_key(t) # ""
       THEN MarkKey(t, "rift", fis_key(t), [pc |-> "fis_post", i |-> th[t].i + 1])
       ELSE /\ th' = Upd(t, [pc |-> "fis_post", i |-> th[t].i + 1,
                             last_ok |-> FALSE])
            /\ UNCHANGED << state, keyCats >>
    /\ UNCHANGED << nbCount, purged, abandoned, dirty >>
    /\ NotifyFrame

\* a selection that lets every cycle domain through
EarthWeatherAll(ws) == fetch_weather(ws)

\* [w for w in fetch_weather() if w["planet"] == "Earth"]
EarthWeather(ws) == SelectSeq(fetch_weather(ws), LAMBDA w : w.planet = "Earth")

WeatherFetch(t) ==
    /\ th[t].pc = "weather"
    /\ th' = Upd(t, [pc |-> "w_notify", i |-> 1,
                     earth_weather |-> EarthWeather(_get(upstream["weather"]))])
    /\ UNCHANGED << state >>
    /\ NotifyFrame /\ HistUnchanged

weather_key(w) == "weather_" \o w.planet \o "_" \o w.state \o "_" \o w.expiry

w_key(t) == weather_key(th[t].earth_weather[th[t].i])

\* a cycle-state stage that forgets what it announced
WeatherMarkNot(t) ==
    /\ th[t].pc = "w_mark"
    /\ MarkKeyNot(t, "cycle", w_key(t), [pc |-> "w_notify", i |-> th[t].i + 1])
    /\ UNCHANGED << nbCount, purged, abandoned, dirty >>
    /\ NotifyFrame

\* a stage that announces the first state it ever observes and no other
WeatherNotifyFirstOnly(t) ==
    /\ th[t].pc = "w_notify"
    /\ \/ /\ th[t].i > Len(th[t].earth_weather)
          /\ th' = Upd(t, [pc |-> "purge", i |-> 0, notified |-> TRUE,
                           last_weather |-> th[t].earth_weather])
          /\ UNCHANGED nbCount
       \/ /\ th[t].i <= Len(th[t].earth_weather)
          /\ ~(Unseen(w_key(t), state) /\ th[t].last_weather = << >>)
          /\ th' = Upd(t, [i |-> th[t].i + 1])
          /\ UNCHANGED nbCount
       \/ /\ th[t].i <= Len(th[t].earth_weather)
          /\ Unseen(w_key(t), state) /\ th[t].last_weather = << >>
          /\ Deliver(t, "cycle", w_key(t), "w_mark")
          /\ nbCount' = Bump(nbCount, w_key(t))
    /\ UNCHANGED << state, keyCats, purged, abandoned, dirty >>
    /\ NotifyFrame

WeatherNotify(t) ==
    /\ th[t].pc = "w_notify"
    /\ \/ /\ th[t].i > Len(th[t].earth_weather)
          /\ th' = Upd(t, [pc |-> "purge", i |-> 0, notified |-> TRUE,
                           last_weather |-> th[t].earth_weather])
          /\ UNCHANGED nbCount
       \/ /\ th[t].i <= Len(th[t].earth_weather)
          /\ ~Unseen(w_key(t), state)
          /\ th' = Upd(t, [i |-> th[t].i + 1])
          /\ UNCHANGED nbCount
       \/ /\ th[t].i <= Len(th[t].earth_weather)
          /\ Unseen(w_key(t), state)
          /\ Deliver(t, "cycle", w_key(t), "w_mark")
          /\ nbCount' = Bump(nbCount, w_key(t))
    /\ UNCHANGED << state, keyCats, purged, abandoned, dirty >>
    /\ NotifyFrame

WeatherMark(t) ==
    /\ th[t].pc = "w_mark"
    /\ MarkKey(t, "cycle", w_key(t), [pc |-> "w_notify", i |-> th[t].i + 1])
    /\ UNCHANGED << nbCount, purged, abandoned, dirty >>
    /\ NotifyFrame

(***************************************************************************)
(* The end of a cycle: purge_old, save_state.                              *)
(***************************************************************************)
Restrict(f, keys) == [k \in DOMAIN f \cap keys |-> f[k]]

PurgeOld(t) ==
    /\ th[t].pc = "purge"
    /\ state' = purge_old(state, clock)
    /\ purged' = purged \cup Stale(state, clock)
    /\ keyCats' = Restrict(keyCats, DOMAIN keyCats \ Stale(state, clock))
    /\ th' = Upd(t, [pc |-> "save", removed |-> Stale(state, clock)])
    /\ UNCHANGED << disk, late, nbCount, abandoned, dirty >>
    /\ EnvUnchanged /\ GuiUnchanged /\ PostUnchanged

\* the locals of a cycle that is over
CycleOver == [traders |-> << >>, invasions |-> << >>, fissures |-> << >>,
              new_fissures |-> << >>, earth_weather |-> << >>, cur |-> 0,
              i |-> 0]

\* where a thread goes when its cycle returns
AfterCycle(role) ==
    CASE role = "main"    -> "sleep"
      [] role = "worker"  -> "wl_wait"
      [] role = "refresh" -> "exit"

\* a cycle end that leaves the file as it is
SaveStateNot(t) ==
    /\ th[t].pc = "save"
    /\ th' = Upd(t, [pc |-> AfterCycle(th[t].role)] @@ CycleOver)
    /\ UNCHANGED << disk, state, late >>
    /\ EnvUnchanged /\ GuiUnchanged /\ PostUnchanged /\ HistUnchanged

\* save_state: open(STATE_FILE, "w") truncates the file and json.dump
\* rewrites it whole; a write that raises OSError leaves it truncated
SaveState(t) ==
    /\ th[t].pc = "save"
    /\ \/ /\ disk' = OnDisk(state)
          /\ th' = Upd(t, [pc |-> AfterCycle(th[t].role)] @@ CycleOver)
       \/ /\ disk' = CorruptFile
          /\ th' = Upd(t, [pc |-> "raise"] @@ CycleOver)
    /\ UNCHANGED << state, late >>
    /\ EnvUnchanged /\ GuiUnchanged /\ PostUnchanged /\ HistUnchanged

(***************************************************************************)
(* HeadlessReporter.loop_forever.                                          *)
(***************************************************************************)
\* a loop without the except clause: the exception ends the process
LoopCatchNot ==
    /\ mode = "headless"
    /\ th[Main].pc = "raise"
    /\ th' = Upd(Main, [pc |-> "crashed"])
    /\ UNCHANGED << disk, state, late >>
    /\ EnvUnchanged /\ GuiUnchanged /\ PostUnchanged /\ HistUnchanged

\* except Exception as e: self.log(...)
LoopCatch ==
    /\ mode = "headless"
    /\ th[Main].pc = "raise"
    /\ th' = Upd(Main, [pc |-> "sleep"])
    /\ UNCHANGED << disk, state, late >>
    /\ EnvUnchanged /\ GuiUnchanged /\ PostUnchanged /\ HistUnchanged

\* time.sleep(CHECK_EVERY) returns
LoopSleep ==
    /\ mode = "headless"
    /\ th[Main].pc = "sleep"
    /\ th' = Upd(Main, [pc |-> "idle"])
    /\ UNCHANGED << disk, state, late >>
    /\ EnvUnchanged /\ GuiUnchanged /\ PostUnchanged /\ HistUnchanged

(***************************************************************************)
(* The environment: time passes, the upstream changes what it serves.      *)
(***************************************************************************)
\* the clock is coarse: what passes during a cycle is below its step, and
\* it moves while the scheduler sleeps
Tick ==
    /\ mode = "headless" => th[Main].pc = "sleep"
    /\ mode # "post"
    /\ clock + TickDays * Day <= MaxClock
    /\ clock' = clock + TickDays * Day
    /\ dirty' = TRUE
    /\ UNCHANGED << mode, upstream, disk, state, th, late, nbCount, keyCats,
                    purged, varying, slow, abandoned >>
    /\ GuiUnchanged /\ PostUnchanged

\* in the headless program every endpoint is read once per cycle, so a
\* change during a cycle is a change before or after it
UpstreamChange(k) ==
    /\ mode = "headless" => th[Main].pc = "sleep"
    /\ mode # "post"
    /\ k = varying
    /\ \E a \in Answers(k) \ {upstream[k]} :
           upstream' = [upstream EXCEPT ![k] = a]
    /\ dirty' = TRUE
    /\ UNCHANGED << mode, clock, disk, state, th, late, nbCount, keyCats,
                    purged, varying, slow, abandoned >>
    /\ GuiUnchanged /\ PostUnchanged

Cycle(t) ==
    \/ CycleStart(t)
    \/ ProcessDataRaise(t)
    \/ \E k \in Pipelines : FetchThread(t, k)
    \/ JoinAll(t)
    \/ TraderPre(t)
    \/ TraderPreMark(t)
    \/ TraderArrive(t)
    \/ TraderArriveMark(t)
    \/ InvasionNotify(t)
    \/ InvasionMark(t)
    \/ FissureScan(t)
    \/ FissurePost(t)
    \/ FissureMark(t)
    \/ WeatherFetch(t)
    \/ WeatherNotify(t)
    \/ WeatherMark(t)
    \/ PurgeOld(t)
    \/ SaveState(t)

Next ==
    \/ Boot
    \/ Cycle(Main)
    \/ LoopCatch
    \/ LoopSleep
    \/ Tick
    \/ \E k \in Endpoints : UpstreamChange(k)

Spec == Init /\ [][Next]_vars

(***************************************************************************)
(* The headless scheduler under fair scheduling of its one thread: a       *)
(* thread that can take a step takes one.  The environment (the clock, the *)
(* upstream) owes nothing.                                                 *)
(***************************************************************************)
InitLive ==
    /\ Init
    /\ \A k \in Endpoints : upstream[k].k = "ok"
    /\ varying = "traders"

LiveSpec ==
    /\ InitLive
    /\ [][Next]_vars
    /\ WF_vars(Boot \/ Cycle(Main) \/ LoopCatch \/ LoopSleep)

(***************************************************************************)
(* The headless scheduler when one pipeline's fetch can outlast its join:  *)
(* the join times out, process_data returns without the thread's result,   *)
(* and the thread runs on until its fetch ends.                            *)
(***************************************************************************)
InitLate ==
    /\ mode = "headless"
    /\ InitCommon
    /\ upstream \in StartUpstreams
    /\ \A k \in Endpoints : upstream[k].k = "ok"
    /\ varying = "traders"
    /\ slow \in { {k} : k \in Pipelines }
    /\ disk \in {NoFile, CorruptFile} \cup {OnDisk(l) : l \in StoredLedgers}
    /\ th = [t \in Threads |->
                IF t = Main THEN [Dormant EXCEPT !.pc = "boot", !.role = "main"]
                ELSE Dormant]
    /\ post_in = << >>
    /\ post_out = << >>
    /\ NoCall

NextLate ==
    \/ Next
    \/ LateFetchDone

SpecLate == InitLate /\ [][NextLate]_vars

(***************************************************************************)
(* The headless scheduler while the Earth cycle goes through its states:   *)
(* the three pipelines serve the same documents all along, the root        *)
(* endpoint serves a day, a night, a later day, a night without expiry, or *)
(* fails.                                                                  *)
(***************************************************************************)
WeatherAnswers ==
    Answers("weather")
        \cup {Answer(EarthDayLater), Answer(EarthNightNoExpiry)}

InitWeather ==
    /\ Init
    /\ \A k \in Endpoints : upstream[k].k = "ok"
    /\ varying = "weather"

\* the root endpoint serves something else from now on
WeatherChange ==
    /\ th[Main].pc = "sleep"
    /\ \E a \in WeatherAnswers \ {upstream["weather"]} :
           upstream' = [upstream EXCEPT !["weather"] = a]
    /\ dirty' = TRUE
    /\ UNCHANGED << mode, clock, disk, state, th, late, nbCount, keyCats,
                    purged, varying, slow, abandoned >>
    /\ GuiUnchanged /\ PostUnchanged

NextWeather ==
    \/ Boot
    \/ Cycle(Main)
    \/ LoopCatch
    \/ LoopSleep
    \/ Tick
    \/ WeatherChange

SpecWeather == InitWeather /\ [][NextWeather]_vars

(***************************************************************************)
(* One call of post_discord on its own: the webhook's answers to the       *)
(* successive POSTs are drawn at the start, the call is one step.          *)
(***************************************************************************)
InitPost ==
    /\ mode = "post"
    /\ InitCommon
    /\ upstream = GuiWorld
    /\ varying = "weather"
    /\ slow = {}
    /\ disk = NoFile
    /\ th = [t \in Threads |-> Dormant]
    /\ post_in \in [1..MaxPostDepth -> WebhookAnswers]
    /\ post_out = << >>
    /\ NoCall

PostCall ==
    /\ mode = "post"
    /\ post_out = << >>
    /\ post_out' = post_discord(post_in, 1)
    /\ UNCHANGED << post_in, call_in, call_out, disk, state, th, late >>
    /\ EnvUnchanged /\ GuiUnchanged /\ HistUnchanged

NextPost == PostCall

SpecPost == InitPost /\ [][NextPost]_vars

(***************************************************************************)
(* The GUI: the Tk main thread runs the button handlers, each to its end;  *)
(* worker and refresh threads run _fetch_and_update on self.state_data.    *)
(* _fetch_and_update also fetches the weather for display (no effect on    *)
(* the ledger, left out).  The clock and the upstream stay as they are     *)
(* during the scenario.                                                    *)
(***************************************************************************)
InitGUI ==
    /\ mode = "gui"
    /\ InitCommon
    /\ upstream = GuiWorld
    /\ varying = "weather"
    /\ slow = {}
    /\ disk \in {NoFile, CorruptFile}
    /\ th = [t \in Threads |->
                IF t = Main THEN [Dormant EXCEPT !.pc = "boot", !.role = "ui"]
                ELSE Dormant]
    /\ post_in = << >>
    /\ post_out = << >>
    /\ NoCall

\* threading.Thread(target=...).start(): the thread started is the first
\* one not started yet
FreeThread == CHOOSE t \in GuiThreads :
                  th[t].pc = "none" /\ \A u \in GuiThreads : th[u].pc = "none" => t <= u

\* a thread that has ended
Ended == [Dormant EXCEPT !.pc = "done"]

GuiFrame == UNCHANGED << disk, state, late >> /\ EnvUnchanged /\ PostUnchanged
                /\ HistUnchanged

_toggle ==
    /\ mode = "gui"
    /\ th[Main].pc = "ui"
    /\ \/ /\ ~running
          /\ \E t \in GuiThreads : th[t].pc = "none"
          /\ running' = TRUE
          /\ th' = Upd(FreeThread, [pc |-> "wl_top", role |-> "worker"])
       \/ /\ running
          /\ running' = FALSE
          /\ th' = th
    /\ UNCHANGED next_check
    /\ GuiFrame

_manual_refresh ==
    /\ mode = "gui"
    /\ th[Main].pc = "ui"
    /\ \/ /\ ~running
          /\ \E t \in GuiThreads : th[t].pc = "none"
          /\ th' = Upd(FreeThread, [pc |-> "idle", role |-> "refresh"])
          /\ UNCHANGED next_check
       \/ /\ running
          /\ next_check' = 0
          /\ th' = th
    /\ UNCHANGED running
    /\ GuiFrame

\* _worker_loop, the test of the outer while: a worker that finds running
\* cleared ends
WorkerTop(t) ==
    /\ th[t].pc = "wl_top"
    /\ \/ /\ running
          /\ next_check' = clock + CHECK_EVERY
          /\ th' = Upd(t, [pc |-> "idle"])
       \/ /\ ~running
          /\ UNCHANGED next_check
          /\ th' = [th EXCEPT ![t] = Ended]
    /\ UNCHANGED running
    /\ GuiFrame

\* the inner while of _worker_loop ends: running cleared, next_check
\* reached (seconds pass below the clock's step) or set to 0
WorkerWait(t) ==
    /\ th[t].pc = "wl_wait"
    /\ th' = Upd(t, [pc |-> "wl_top"])
    /\ UNCHANGED << running, next_check >>
    /\ GuiFrame

\* a refresh thread returns; a thread whose _fetch_and_update raised ends
\* with the exception (nothing catches it)
ThreadEnd(t) ==
    /\ t \in GuiThreads
    /\ th[t].pc \in {"exit", "raise"}
    /\ th' = [th EXCEPT ![t] = Ended]
    /\ UNCHANGED << running, next_check >>
    /\ GuiFrame

NextGUI ==
    \/ Boot
    \/ _toggle
    \/ _manual_refresh
    \/ \E t \in GuiThreads : WorkerTop(t)
    \/ \E t \in GuiThreads : WorkerWait(t)
    \/ \E t \in GuiThreads : ThreadEnd(t)
    \/ \E t \in GuiThreads : Cycle(t)

SpecGUI == InitGUI /\ [][NextGUI]_vars

(***************************************************************************)
(* _reward_is_rare on its own: the reward object is drawn at the start,    *)
(* the call is one step.  An item carries a uniqueName or not, a type or   *)
(* not, or is no object at all; the reward carries "items" or not,         *)
(* "countedItems" or not, or is no object.                                 *)
(***************************************************************************)
Absent == [has |-> FALSE]

Present(v) == [has |-> TRUE, v |-> v]

Field(name, c) == IF c.has THEN (name :> c.v) ELSE [k \in {} |-> 0]

UniqueNames ==
    { Absent, Present(<< >>), Present(<<"/","F","i","e","l","d","r","o","n">>),
      Present(<<"/","U","p","g","r","a","d","e","s","/","F","o","r","m","a">>) }

Types ==
    { Absent, Present(<<"F","i","e","l","d","r","o","n">>),
      Present(<<"R","i","v","e","n"," ","M","o","d">>),
      Present(<<"r","i","v","e","n"," ","m","o","d">>) }

ItemOf(un, ty) == EmptyObj @@ Field("uniqueName", un) @@ Field("type", ty)

JStr(str) == [json |-> "string", s |-> str]

RewardItems ==
    { ItemOf(un, ty) : un \in UniqueNames, ty \in Types } \cup {JStr("Forma")}

ItemLists == UNION { [1..n -> RewardItems] : n \in 0..MaxItems }

CountedLists ==
    { << >>, << ItemOf(Absent, Present(<<"F","o","r","m","a">>)) >>,
      << ItemOf(Absent, Present(<<"F","i","e","l","d","r","o","n">>)) >> }

RewardObjs ==
    { EmptyObj @@ Field("items", its) @@ Field("countedItems", cnt) :
        its \in {Absent} \cup { Present(l) : l \in ItemLists },
        cnt \in {Absent} \cup { Present(l) : l \in CountedLists } }
    \cup {Null, JStr("Forma")}

InitRare ==
    /\ mode = "rare"
    /\ InitCommon
    /\ upstream = GuiWorld
    /\ varying = "weather"
    /\ slow = {}
    /\ disk = NoFile
    /\ th = [t \in Threads |-> Dormant]
    /\ post_in = << >>
    /\ post_out = << >>
    /\ call_in \in RewardObjs
    /\ call_out = NotCalled

CallFrame ==
    /\ UNCHANGED << call_in, post_in, post_out, disk, state, th, late >>
    /\ EnvUnchanged /\ GuiUnchanged /\ HistUnchanged

RareCall ==
    /\ mode = "rare"
    /\ call_out = NotCalled
    /\ call_out' = Called(_reward_is_rare(call_in))
    /\ CallFrame

NextRare == RareCall

SpecRare == InitRare /\ [][NextRare]_vars

(***************************************************************************)
(* fetch_invasions on a document of one contest with a rare reward, for    *)
(* the progress ratio: "count" and "goal" are drawn at the start, the call *)
(* is one step.                                                            *)
(***************************************************************************)
Contest(count, goal) ==
    Obj([id |-> "a", completed |-> FALSE,
         attacker |-> Obj([reward |-> Reward(<< RivenItem >>)]),
         defender |-> Obj([reward |-> Reward(<< >>)]),
         count |-> JNum(count), goal |-> JNum(goal)])

InitProgress ==
    /\ mode = "progress"
    /\ InitCommon
    /\ upstream = GuiWorld
    /\ varying = "weather"
    /\ slow = {}
    /\ disk = NoFile
    /\ th = [t \in Threads |-> Dormant]
    /\ post_in = << >>
    /\ post_out = << >>
    /\ call_in \in [count : -MaxCount..MaxCount, goal : -MaxCount..MaxCount]
    /\ call_out = NotCalled

ProgressCall ==
    /\ mode = "progress"
    /\ call_out = NotCalled
    /\ call_out' = Called(fetch_invasions(
                              List(<< Contest(call_in.count, call_in.goal) >>)))
    /\ CallFrame

NextProgress == ProgressCall

SpecProgress == InitProgress /\ [][NextProgress]_vars

(***************************************************************************)
(* The timing of process_data: the three threads are started together at   *)
(* time 0, thread k writes results[k] dur[k] seconds later, and the caller *)
(* joins them one after the other in the order of the list, each join with *)
(* its own timeout.  A thread that ends at the very instant a timeout      *)
(* expires or the results are read may be seen either way: tie says which. *)
(***************************************************************************)
ThreadOrder == << "traders", "invasions", "fissures" >>

\* for t in threads: t.join(timeout=20), from time now on; the result is the
\* time the loop is over and the threads a join saw ended
RECURSIVE JoinLoop(_, _, _, _, _)
JoinLoop(order, dur, tie, now, ended) ==
    IF order = << >> THEN [now |-> now, ended |-> ended]
    ELSE LET k == Head(order)
             deadline == now + JoinTimeout
         IN IF dur[k] <= now
            THEN JoinLoop(Tail(order), dur, tie, now, ended \cup {k})
            ELSE IF dur[k] < deadline \/ (dur[k] = deadline /\ tie)
            THEN JoinLoop(Tail(order), dur, tie, dur[k], ended \cup {k})
            ELSE JoinLoop(Tail(order), dur, tie, deadline, ended)

\* how long process_data waits in its joins, and the pipelines whose result
\* is in the dict when results.get reads it
JoinTiming(dur, tie) ==
    LET end == JoinLoop(ThreadOrder, dur, tie, 0, {})
    IN [waited |-> end.now,
        used   |-> { k \in Pipelines :
                        \/ k \in end.ended
                        \/ dur[k] < end.now
                        \/ (dur[k] = end.now /\ tie) }]

Durations == { 5 * n : n \in 1..MaxDur }

InitJoin ==
    /\ mode = "join"
    /\ InitCommon
    /\ upstream = GuiWorld
    /\ varying = "weather"
    /\ slow = {}
    /\ disk = NoFile
    /\ th = [t \in Threads |-> Dormant]
    /\ post_in = << >>
    /\ post_out = << >>
    /\ call_in \in [dur : [Pipelines -> Durations], tie : BOOLEAN]
    /\ call_out = NotCalled

JoinCall ==
    /\ mode = "join"
    /\ call_out = NotCalled
    /\ call_out' = Called(JoinTiming(call_in.dur, call_in.tie))
    /\ CallFrame

NextJoin == JoinCall

SpecJoin == InitJoin /\ [][NextJoin]_vars

(***************************************************************************)
(* The long run: the headless program on upstream documents that stay as   *)
(* they are, with a clock that moves past the retention window between     *)
(* cycles, so that entries the program wrote itself get purged.            *)
(***************************************************************************)
InitFar ==
    /\ Init
    /\ \A k \in Endpoints : upstream[k].k = "ok"
    /\ varying = "weather"

\* more than the retention window passes during a sleep
TickFar ==
    /\ th[Main].pc = "sleep"
    /\ clock + (RetentionDays + 1) * Day <= MaxFarDay * Day
    /\ clock' = clock + (RetentionDays + 1) * Day
    /\ dirty' = TRUE
    /\ UNCHANGED << mode, upstream, disk, state, th, late, nbCount, keyCats,
                    purged, varying, slow, abandoned >>
    /\ GuiUnchanged /\ PostUnchanged

NextFar ==
    \/ Boot
    \/ Cycle(Main)
    \/ LoopCatch
    \/ LoopSleep
    \/ TickFar

SpecFar == InitFar /\ [][NextFar]_vars

(***************************************************************************)
(* One normalizer on its own, on documents that hold relevant records next *)
(* to malformed and irrelevant ones: the document and the clock reading    *)
(* are drawn at the start, the call is one step.                           *)
(***************************************************************************)
GoodContest == Invasion("a", FALSE, << >>, << RivenItem >>)

\* "attacker": null
NullAttacker ==
    Obj([id |-> "b", completed |-> FALSE, attacker |-> Null,
         defender |-> Obj([reward |-> Reward(<< RivenItem >>)]),
         count |-> JNum(3), goal |-> JNum(10)])

\* "goal": null
NullGoal ==
    Obj([id |-> "c", completed |-> FALSE,
         attacker |-> Obj([reward |-> Reward(<< RivenItem >>)]),
         defender |-> Obj([reward |-> Reward(<< >>)]),
         count |-> JNum(3), goal |-> Null])

\* no field but the identity and one rare reward
BareContest ==
    Obj([id |-> "d", attacker |-> Obj([reward |-> Reward(<< RivenItem >>)])])

GoodRift == Fissure("r1", TRUE, NodeMot)

\* no field but the identity, the flag and the node
BareRift == Obj([id |-> "r2", isHard |-> TRUE, node |-> NodeAni])

\* a contest that is over, and one with no rare reward
DoneContest == Invasion("e", TRUE, << >>, << RivenItem >>)

PlainContest == Invasion("f", FALSE, << PlainItem >>, << >>)

\* a normal rift, a rift at a node off the list, a rift that ends early
SoftRift == Fissure("r3", FALSE, NodeMot)

OtherRift == Fissure("r4", TRUE, NodeOther)

EarlyRift ==
    Obj([id |-> "r5", isHard |-> TRUE, node |-> NodeKappa,
         expiry |-> IsoDay(StartDay + 1)])

\* a trader with no expiry
OpenTrader == Obj([id |-> "n", activation |-> IsoDay(StartDay)])

ContestRecords ==
    {GoodContest, NullAttacker, NullGoal, BareContest, DoneContest,
     PlainContest, Null}

RiftRecords ==
    {GoodRift, BareRift, FissureNoId, SoftRift, OtherRift, EarlyRift, Null,
     JStr("r9")}

TraderRecords == {TraderA, TraderLanded, OpenTrader, Null}

DocsOf(records) == UNION { [1..n -> records] : n \in 0..MaxRecords }

InitNormalize ==
    /\ mode = "normalize"
    /\ InitCommon
    /\ upstream = GuiWorld
    /\ varying = "weather"
    /\ slow = {}
    /\ disk = NoFile
    /\ th = [t \in Threads |-> Dormant]
    /\ post_in = << >>
    /\ post_out = << >>
    /\ \/ call_in \in [fn : {"invasions"}, data : DocsOf(ContestRecords),
                       clk : Clocks]
       \/ call_in \in [fn : {"fissures"}, data : DocsOf(RiftRecords),
                       clk : Clocks]
       \/ call_in \in [fn : {"traders"}, data : DocsOf(TraderRecords),
                       clk : Clocks]
    /\ call_out = NotCalled

NormalizeCall ==
    /\ mode = "normalize"
    /\ call_out = NotCalled
    /\ call_out' =
           Called(Normalize(call_in.fn, List(call_in.data), call_in.clk))
    /\ CallFrame

NextNormalize == NormalizeCall

SpecNormalize == InitNormalize /\ [][NextNormalize]_vars

(***************************************************************************)
(* Properties of the headless program (Spec).                              *)
(***************************************************************************)
\* the cycle of thread t is in do_discord_notifications or behind it, its
\* locals still held
Notifying(t) ==
    th[t].pc \in {"traders", "pre_mark", "arrive", "arrive_mark", "invasions",
                  "inv_mark", "fissures", "fis_post", "fis_mark", "weather",
                  "w_notify", "w_mark", "purge", "save"}

\* the rift stage of thread t's cycle is over
RiftsDone(t) == th[t].pc \in {"weather", "w_notify", "w_mark", "purge", "save"}

\* the keys of category cat that thread t's cycle has handed to post_discord
SentKeys(t, cat) ==
    LET es == SelectSeq(th[t].sent, LAMBDA e : e.cat = cat)
    IN [j \in 1..Len(es) |-> es[j].key]

Oids(cands) == [j \in 1..Len(cands) |-> cands[j].oid]

\* C1: on a ledger from which the key was never purged, every key of the
\* non-batch categories (arrival-pre, arrival-arrive, contest) is handed to
\* the notifier at most once over all cycles, whatever the upstream serves
\* and also when one upstream list names the identity several times.
C1_AtMostOncePerKey ==
    \A k \in DOMAIN nbCount : k \notin purged => nbCount[k] <= 1

\* the second record of the same arrival is under examination, the first
\* one's pre-announcement delivered and marked in this same cycle
C1_Witness ==
    /\ th[Main].pc = "traders"
    /\ th[Main].i = 2
    /\ Len(th[Main].traders) = 2
    /\ th[Main].traders[1].oid = th[Main].traders[2].oid
    /\ ~Unseen(pre_key(Main), state)
    /\ pre_key(Main) \in DOMAIN nbCount
    /\ nbCount[pre_key(Main)] = 1
    /\ purged = {}

\* C3 (as the program has it): when the rift stage finds at least one rift
\* candidate with a non-empty identity missing from the ledger, every rift
\* candidate of the cycle is delivered, those already marked included, and
\* once the stage is over every rift candidate with a non-empty identity is
\* in the ledger.
C3_WaveDeliversAllMarksIdentified ==
    (RiftsDone(Main) /\ th[Main].new_fissures # << >>) =>
        /\ SentKeys(Main, "rift") = Oids(th[Main].fissures)
        /\ \A j \in 1..Len(th[Main].fissures) :
              th[Main].fissures[j].oid # "" =>
                  th[Main].fissures[j].oid \in DOMAIN state

\* a wave of three rifts is over, two of them in the ledger before it
C3_Witness ==
    /\ RiftsDone(Main)
    /\ Len(th[Main].fissures) = 3
    /\ Len(th[Main].new_fissures) = 1
    /\ SentKeys(Main, "rift") = << "r1", "r2", "r3" >>
    /\ {"r1", "r2", "r3"} \subseteq DOMAIN state

\* C3 as stated: after a wave every rift candidate of the cycle is marked.
C3_WaveMarksAll ==
    (RiftsDone(Main) /\ th[Main].new_fissures # << >>) =>
        /\ SentKeys(Main, "rift") = Oids(th[Main].fissures)
        /\ \A j \in 1..Len(th[Main].fissures) :
              th[Main].fissures[j].oid \in DOMAIN state

\* what pipeline k handed to the notification stage of thread t
Got(t, k) ==
    CASE k = "traders"   -> th[t].traders
      [] k = "invasions" -> th[t].invasions
      [] k = "fissures"  -> th[t].fissures

\* the candidates pipeline k yields from what its endpoint serves
Expected(k) ==
    IF _get(upstream[k]) = Null THEN << >>
    ELSE Normalize(k, _get(upstream[k]), clock).val

\* every candidate that is due has been dealt with: its key is in the ledger
AllNotified(t) ==
    /\ \A j \in 1..Len(th[t].traders) :
          LET c == th[t].traders[j]
          IN /\ PreDue(c.act_ms, th[t].cur) => ("vt_pre_" \o c.oid) \in DOMAIN state
             /\ ArriveDue(c.act_ms, th[t].cur) =>
                    ("vt_arrive_" \o c.oid) \in DOMAIN state
    /\ \A j \in 1..Len(th[t].invasions) :
          th[t].invasions[j].oid # "" => th[t].invasions[j].oid \in DOMAIN state
    /\ \A j \in 1..Len(th[t].fissures) :
          th[t].fissures[j].oid # "" => th[t].fissures[j].oid \in DOMAIN state

\* C4: whichever of the three pipelines fail to fetch, the cycle goes on to
\* the notification stage (it never fails while its fetch threads are out),
\* each failed pipeline hands over an empty list, every other pipeline hands
\* over the candidates of its document, and by the end of the notification
\* stage each of these candidates has been notified or found in the ledger.
C4_FailedPipelinesYieldEmpty ==
    /\ th[Main].pc = "raise" => th[Main].fetching = {}
    /\ Notifying(Main) /\ th[Main].pc # "save" =>
          \A k \in Pipelines : Got(Main, k) = Expected(k)
    /\ th[Main].pc = "purge" => AllNotified(Main)

\* two pipelines failed, the contest of the third one was delivered
C4_Witness ==
    /\ th[Main].pc = "purge"
    /\ upstream["traders"].k = "timeout"
    /\ upstream["fissures"].k = "connection"
    /\ th[Main].traders = << >> /\ th[Main].fissures = << >>
    /\ SentKeys(Main, "contest") = << "a" >>

\* C6: the purge runs in every cycle after the notification stage and goes
\* by age alone: when a cycle reaches its persist step the ledger holds no
\* entry older than 3 days (259200 s), and the purge step keeps every entry
\* that is not older than that, with its timestamp.
C6_PurgeByAge ==
    /\ [](th[Main].pc = "save" =>
            \A k \in DOMAIN state : state[k] >= clock - 259200)
    /\ [][th[Main].pc = "purge" =>
            /\ th'[Main].pc = "save"
            /\ \A k \in DOMAIN state :
                  state[k] >= clock - 259200 =>
                      k \in DOMAIN state' /\ state'[k] = state[k]
            /\ DOMAIN state' \subseteq DOMAIN state]_vars

\* an entry 4 days old is gone, the entries 1 day old are still there
C6_Witness ==
    /\ th[Main].pc = "save"
    /\ "a" \in th[Main].removed
    /\ "a" \notin DOMAIN state
    /\ "r1" \in DOMAIN state
    /\ state["r1"] = clock - Day

\* C7 as stated: a corrupt ledger file at process start is not fatal, the
\* process goes on with an empty ledger.
C7_CorruptLedgerNotFatal ==
    th[Main].pc # "crashed"

\* C8 as stated: a key consulted for a contest or a rift was never written
\* for an event of another category.
C8_KeysNeverCollide ==
    /\ (th[Main].pc = "invasions" /\ th[Main].i <= Len(th[Main].invasions)
        /\ inv_key(Main) \in DOMAIN keyCats)
           => keyCats[inv_key(Main)] \subseteq {"contest"}
    /\ th[Main].pc = "fissures" =>
           \A j \in 1..Len(th[Main].fissures) :
               th[Main].fissures[j].oid \in DOMAIN keyCats =>
                   keyCats[th[Main].fissures[j].oid] \subseteq {"rift"}

\* the contest stage of a cycle that read the fixture is over
FixtureRead(t) ==
    /\ Notifying(t)
    /\ th[t].pc \notin {"traders", "pre_mark", "arrive", "arrive_mark",
                        "invasions", "inv_mark", "save"}
    /\ upstream["invasions"] = Answer(FixtureInvasions)

\* C10 (as the program has it): a cycle that reads the documents and the
\* clock of the cycle before it, on the ledger that cycle left, delivers
\* nothing, provided the purge of the cycle before removed no entry; and of
\* the fixture (one rare, one non-rare contest) exactly one contest
\* candidate comes out, delivered exactly once by the cycle that finds its
\* key unseen.
C10_SecondRunDeliversNothing ==
    /\ [](Notifying(Main) /\ th[Main].pc # "save" /\ th[Main].repeat
          /\ th[Main].removed = {} => th[Main].sent = << >>)
    /\ [](FixtureRead(Main) =>
            /\ Len(th[Main].invasions) = 1
            /\ Len(SentKeys(Main, "contest")) <= 1)
    /\ [][(th[Main].pc = "invasions" /\ th[Main].i = 1
           /\ upstream["invasions"] = Answer(FixtureInvasions)
           /\ Unseen("a", state))
          => SentKeys(Main, "contest")' = << "a" >>]_vars

\* a second run on the same documents and clock is behind its notification
\* stage, the fixture's contest delivered by the first run
C10_Witness ==
    /\ th[Main].pc = "purge"
    /\ th[Main].repeat
    /\ th[Main].removed = {}
    /\ th[Main].sent = << >>
    /\ upstream["invasions"] = Answer(FixtureInvasions)
    /\ Len(th[Main].invasions) = 1
    /\ "a" \in DOMAIN nbCount /\ nbCount["a"] = 1

\* C10 as stated: the second run delivers nothing.
C10_SecondRunDeliversNothingAtAll ==
    Notifying(Main) /\ th[Main].pc # "save" /\ th[Main].repeat
        => th[Main].sent = << >>

(***************************************************************************)
(* Properties of the notifier (SpecPost), of the scheduler under fairness  *)
(* (LiveSpec) and of the GUI (SpecGUI).                                    *)
(***************************************************************************)
\* C2 as stated: whatever the webhook answers, one call of post_discord
\* makes at most two POSTs.
C2_AtMostTwoPosts ==
    post_out # << >> => Attempts(post_out) <= 2

\* the scheduler loop is running (load_state has returned)
Started == th[Main].pc \notin {"boot", "crashed"}

\* C5: in the headless scheduler an exception raised by a cycle (polling,
\* notifying or persisting) is caught at the cycle boundary and leads to the
\* inter-cycle wait; the loop never ends; and from every state of the
\* running scheduler the loop comes back to the call of run_once and a next
\* cycle begins.
C5_NextCycleAlwaysBegins ==
    /\ [][th[Main].pc = "raise" => th'[Main].pc = "sleep"]_vars
    /\ [][Started => Started']_vars
    /\ Started ~> (th[Main].pc = "idle")
    /\ (th[Main].pc = "idle") ~> (th[Main].pc \in {"poll", "raise"})

\* the persist step of a cycle has raised and the scheduler is in the wait
\* that follows
C5_Witness ==
    /\ th[Main].pc = "sleep"
    /\ disk = CorruptFile
    /\ state # EmptyLedger

\* thread t is in the check / deliver / mark sequence, the purge or the
\* persist step
Writing(t) == Notifying(t)

\* C9 as stated: at no time are two threads in the check / deliver / mark
\* sequence, the purge or the persist step of the same ledger.
C9_SingleWriter ==
    Cardinality({ t \in Threads : Writing(t) }) <= 1


\* every rift candidate thread t holds that has an identity is in the ledger
RiftsKnown(t) ==
    \A j \in 1..Len(th[t].fissures) :
        th[t].fissures[j].oid # "" => th[t].fissures[j].oid \in DOMAIN state

\* C11: when the rift stage of a cycle begins and every rift candidate's
\* identity is already in the ledger, the stage is over in that one step:
\* nothing is handed to the notifier and the ledger is left exactly as it
\* is; and rifts are delivered or marked only in a cycle whose scan found a
\* new identity.
C11_KnownRiftsSendNothing ==
    /\ [](th[Main].pc \in {"fis_post", "fis_mark"} =>
              th[Main].new_fissures # << >>)
    /\ [][(th[Main].pc = "fissures" /\ RiftsKnown(Main)) =>
              /\ th'[Main].pc = "weather"
              /\ th'[Main].sent = th[Main].sent
              /\ state' = state]_vars

\* the rift stage went silently by three rifts that are all in the ledger
C11_Witness ==
    /\ th[Main].pc = "weather"
    /\ Oids(th[Main].fissures) = << "r1", "r2", "r3" >>
    /\ RiftsKnown(Main)
    /\ th[Main].new_fissures = << >>
    /\ SentKeys(Main, "rift") = << >>


\* the keys the cycle-state stage can synthesize from the documents served
CycleKeys ==
    UNION { { weather_key(EarthWeather(d)[j]) :
                j \in 1..Len(EarthWeather(d)) } : d \in WeatherDocs }

\* C12: a cycle-state notification is handed to the notifier only while its
\* key (planet, state label, expiry label) is not in the ledger, and over
\* all the polls of all cycles a key that was never purged is announced at
\* most once.
C12_CycleStateOncePerKey ==
    /\ [](\A k \in CycleKeys \cap DOMAIN nbCount :
              k \notin purged => nbCount[k] <= 1)
    /\ [][\A k \in CycleKeys :
              th'[Main].sent = Append(th[Main].sent, [cat |-> "cycle", key |-> k])
                  => Unseen(k, state)]_vars

\* a later cycle polls the state it announced before and passes it by
C12_Witness ==
    /\ th[Main].pc = "w_notify"
    /\ th[Main].i = 2
    /\ Len(th[Main].earth_weather) = 1
    /\ SentKeys(Main, "cycle") = << >>
    /\ weather_key(th[Main].earth_weather[1]) \in DOMAIN nbCount
    /\ nbCount[weather_key(th[Main].earth_weather[1])] = 1
    /\ weather_key(th[Main].earth_weather[1]) \notin purged


\* the place of a category in the order of do_discord_notifications
CatRank(cat) ==
    CASE cat \in {"pre", "arrive"} -> 1
      [] cat = "contest"           -> 2
      [] cat = "rift"              -> 3
      [] cat = "cycle"             -> 4

RECURSIVE IsSubSeq(_, _)
\* a is b with some of its elements left out
IsSubSeq(a, b) ==
    IF a = << >> THEN TRUE
    ELSE IF b = << >> THEN FALSE
    ELSE IF Head(a) = Head(b) THEN IsSubSeq(Tail(a), Tail(b))
    ELSE IsSubSeq(a, Tail(b))

RECURSIVE ArrivalKeys(_)
\* the keys the arrival stage tests, in the order it tests them
ArrivalKeys(traders) ==
    IF traders = << >> THEN << >>
    ELSE << "vt_pre_" \o Head(traders).oid, "vt_arrive_" \o Head(traders).oid >>
             \o ArrivalKeys(Tail(traders))

\* the arrival keys thread t's cycle has handed to post_discord
SentArrivals(t) ==
    LET es == SelectSeq(th[t].sent, LAMBDA e : e.cat \in {"pre", "arrive"})
    IN [j \in 1..Len(es) |-> es[j].key]

\* C13: the deliveries of one cycle are issued in category order (arrivals,
\* contests, rifts, cycle state): no delivery of a later category precedes
\* one of an earlier category; and within a category they follow the order
\* of the candidate list the pipeline built from the upstream list.
C13_DeliveryOrder ==
    Notifying(Main) =>
        /\ \A a, b \in 1..Len(th[Main].sent) :
              a < b => CatRank(th[Main].sent[a].cat) <= CatRank(th[Main].sent[b].cat)
        /\ IsSubSeq(SentArrivals(Main), ArrivalKeys(th[Main].traders))
        /\ IsSubSeq(SentKeys(Main, "contest"), Oids(th[Main].invasions))
        /\ IsSubSeq(SentKeys(Main, "rift"), Oids(th[Main].fissures))
        /\ IsSubSeq(SentKeys(Main, "cycle"),
                    [j \in 1..Len(th[Main].earth_weather) |->
                        weather_key(th[Main].earth_weather[j])])

\* one cycle delivered in all four categories, three rifts among them
C13_Witness ==
    /\ th[Main].pc = "purge"
    /\ SentArrivals(Main) = << "vt_pre_a" >>
    /\ SentKeys(Main, "contest") = << "a" >>
    /\ SentKeys(Main, "rift") = << "r1", "r2", "r3" >>
    /\ Len(SentKeys(Main, "cycle")) = 1
    /\ Len(th[Main].sent) = 6


\* an answer post_discord takes for a failure other than rate limiting: a
\* status outside 200, 204 and 429, a timeout, a connection failure
Dropped(r) == r.k # "http" \/ r.code \notin {200, 204, 429}

\* C14: a POST that ends in a status other than 200, 204 and 429, in a
\* timeout or in a connection failure is the last POST of the call (no
\* retry follows it: the frame goes straight to its final pause), and the
\* call always returns to its caller through the final pause of its
\* outermost frame.
C14_FailureDroppedNoRetry ==
    post_out # << >> =>
        /\ post_out[Len(post_out)] = [ev |-> "pace", depth |-> 1]
        /\ \A i \in 1..Len(post_out) :
              (post_out[i].ev = "post" /\ Dropped(post_in[post_out[i].depth])) =>
                  /\ i < Len(post_out)
                  /\ post_out[i + 1] = [ev |-> "pace", depth |-> post_out[i].depth]
                  /\ \A j \in (i + 1)..Len(post_out) : post_out[j].ev # "post"

\* the first POST timed out: one POST, the pause, nothing else
C14_Witness ==
    /\ post_in[1].k = "timeout"
    /\ post_out = << [ev |-> "post", depth |-> 1], [ev |-> "pace", depth |-> 1] >>


\* the item list of the reward handed to _reward_is_rare ("items")
ItemsOf(reward_obj) ==
    IF IsDict(reward_obj) THEN Get(reward_obj, "items", << >>) ELSE << >>

\* the fallback list of the reward ("countedItems")
CountedOf(reward_obj) ==
    IF IsDict(reward_obj) THEN Get(reward_obj, "countedItems", << >>) ELSE << >>

HasKeyword(name) == \E kw \in RARE_REWARD_TYPES : Contains(name, kw)

\* C15 (as the program has it): a reward is classified rare whenever some
\* item of its item list, every item before it being an object, has a name
\* containing a rare keyword as a case-sensitive substring, the name of an
\* item being its uniqueName when that is non-empty and its type otherwise.
C15_RareByItemName ==
    call_out.done =>
        \A j \in 1..Len(ItemsOf(call_in)) :
            (/\ \A i \in 1..j : IsDict(ItemsOf(call_in)[i])
             /\ HasKeyword(ItemName(ItemsOf(call_in)[j])))
                => call_out.val = "T"

\* the second item has no uniqueName and the type "Riven Mod": rare
C15_Witness ==
    /\ call_out = Called("T")
    /\ Len(ItemsOf(call_in)) = 2
    /\ ~HasKeyword(ItemName(ItemsOf(call_in)[1]))
    /\ "uniqueName" \notin DOMAIN ItemsOf(call_in)[2]
    /\ HasKeyword(Get(ItemsOf(call_in)[2], "type", << >>))

\* C15 as stated: rare whenever some item's type contains a rare keyword,
\* whatever other fields the item carries.
C15_RareByType ==
    call_out.done =>
        \A j \in 1..Len(ItemsOf(call_in)) :
            (/\ \A i \in 1..j : IsDict(ItemsOf(call_in)[i])
             /\ HasKeyword(Get(ItemsOf(call_in)[j], "type", << >>)))
                => call_out.val = "T"

\* C16 (as the program has it): a reward whose item list is empty or absent
\* and whose countedItems list is empty or absent too is never classified
\* rare, whatever other fields it carries; neither is a reward that is no
\* object.
C16_NoItemsNoCountedNotRare ==
    (call_out.done /\ ItemsOf(call_in) = << >> /\ CountedOf(call_in) = << >>) =>
        call_out.val = "F"

\* an empty item list, no countedItems: not rare
C16_Witness ==
    /\ call_out = Called("F")
    /\ IsDict(call_in)
    /\ "items" \in DOMAIN call_in
    /\ call_in.items = << >>
    /\ "countedItems" \notin DOMAIN call_in

\* C16 as stated: a reward whose item list is empty or absent is never
\* classified rare.
C16_NoItemsNeverRare ==
    (call_out.done /\ ItemsOf(call_in) = << >>) => call_out.val # "T"


\* C17: for every integer count and goal the normalizer returns (no
\* division error) and the contest's progress is abs(count) over goal, a
\* goal of 0 or less counting as 1, times 100: the divisor is at least 1,
\* and count = -7 with goal = 0 gives 700.
C17_ProgressClamped ==
    call_out.done =>
        /\ call_out.val.ok
        /\ Len(call_out.val.val) = 1
        /\ LET c == call_out.val.val[1]
               count == IF call_in.count < 0 THEN -call_in.count ELSE call_in.count
               goal == IF call_in.goal <= 0 THEN 1 ELSE call_in.goal
           IN /\ c.prog_den >= 1
              /\ c.prog_num * goal = 100 * count * c.prog_den
              /\ (call_in.count = -7 /\ call_in.goal = 0) =>
                     (c.prog_num = 700 /\ c.prog_den = 1)

\* count = -7, goal = 0: 700 percent
C17_Witness ==
    /\ call_in = [count |-> -7, goal |-> 0]
    /\ call_out.done
    /\ call_out.val.ok
    /\ call_out.val.val[1].prog_num = 700
    /\ call_out.val.val[1].prog_den = 1


\* C18 as stated: the join phase never waits longer than the one bound of
\* 20 s, and a pipeline that has not completed within 20 s of the start of
\* the join contributes nothing to the cycle.
C18_SharedJoinBound ==
    call_out.done =>
        /\ call_out.val.waited <= JoinTimeout
        /\ \A k \in Pipelines :
              call_in.dur[k] > JoinTimeout => k \notin call_out.val.used


\* C19 as stated: no fetch thread outlives its cycle: while a cycle is in
\* its notification stage or behind it, and while the next cycle polls, no
\* fetch thread started by an earlier call of process_data is running.
C19_NoFetchOutlivesCycle ==
    (Notifying(Main) \/ th[Main].pc = "poll") => late = 0


\* the answer makes post_discord back off and retry: a 429 with a JSON
\* object for a body
RateLimited(r) == r.k = "http" /\ r.code = 429 /\ IsDict(r.body)

\* C20 (as the program has it): the POSTs of a call are strictly sequential
\* and each is followed by a pause before any further POST: the backoff of
\* retry_after seconds (5 when the body names none) when it was answered
\* with a rate limit, the pacing pause of 0.6 s otherwise.  The pacing
\* pauses of a call that retried, one per frame, all come after its last
\* POST.
C20_PauseAfterEveryPost ==
    post_out # << >> =>
        /\ post_out[Len(post_out)].ev = "pace"
        /\ \A i \in 1..Len(post_out) : post_out[i].ev = "post" =>
              /\ i < Len(post_out)
              /\ IF RateLimited(post_in[post_out[i].depth])
                 THEN post_out[i + 1] =
                          [ev |-> "backoff",
                           secs |-> Get(post_in[post_out[i].depth].body,
                                        "retry_after", DefaultRetryAfter)]
                 ELSE /\ post_out[i + 1] = [ev |-> "pace", depth |-> post_out[i].depth]
                      /\ \A j \in (i + 1)..Len(post_out) : post_out[j].ev = "pace"
        /\ Len(SelectSeq(post_out, LAMBDA e : e.ev = "pace")) =
               Len(SelectSeq(post_out, LAMBDA e : e.ev = "post"))

\* a rate-limited POST, the backoff, the retry accepted, then both pauses
C20_Witness ==
    /\ post_in[1] = Http(429, RetryBody(2))
    /\ post_in[2] = Http(200, NoRetryBody)
    /\ post_out = << [ev |-> "post", depth |-> 1], [ev |-> "backoff", secs |-> 2],
                     [ev |-> "post", depth |-> 2], [ev |-> "pace", depth |-> 2],
                     [ev |-> "pace", depth |-> 1] >>

\* C20 as stated: between any two POSTs lies the pacing pause of the
\* earlier one.
C20_PaceBetweenPosts ==
    post_out # << >> =>
        \A i, j \in 1..Len(post_out) :
            (i < j /\ post_out[i].ev = "post" /\ post_out[j].ev = "post") =>
                \E m \in (i + 1)..(j - 1) : post_out[m].ev = "pace"


\* what a process started now would load is the ledger in memory
Persisted == load_state(disk) = Returned(state)

C22_NewPairAnnounced ==
    /\ [](th[Main].pc = "purge" =>
              \A j \in 1..Len(th[Main].earth_weather) :
                  weather_key(th[Main].earth_weather[j]) \in DOMAIN state)
    /\ [][(/\ th[Main].pc = "w_notify"
            /\ th[Main].i <= Len(th[Main].earth_weather)
            /\ weather_key(th[Main].earth_weather[th[Main].i]) \notin DOMAIN state)
              => th'[Main].sent =
                   Append(th[Main].sent,
                          [cat |-> "cycle",
                           key |-> weather_key(th[Main].earth_weather[th[Main].i])])]_vars

\* day in a later window follows a night; day was announced in its earlier
\* window, and is announced again
C22_Witness ==
    /\ th[Main].pc = "purge"
    /\ SentKeys(Main, "cycle") = << "weather_Earth_Day_1970-01-08 00:00" >>
    /\ "weather_Earth_Day_1970-01-06 00:00" \in DOMAIN state
    /\ \E k \in DOMAIN state \cap CycleKeys :
           k \notin {"weather_Earth_Day_1970-01-08 00:00",
                     "weather_Earth_Day_1970-01-06 00:00"}

\* C22 as stated: whenever the state or window observed differs from the
\* one the previous poll observed, the weather stage finds it eligible (and
\* so announces it).
C22_ChangeAlwaysAnnounced ==
    (/\ th[Main].pc = "w_notify"
     /\ th[Main].i = 1
     /\ th[Main].earth_weather # << >>
     /\ th[Main].last_weather # << >>
     /\ th[Main].earth_weather # th[Main].last_weather)
        => Unseen(w_key(Main), state)


\* the identities of the well-formed records of the document handed to the
\* normalizer
GoodIds ==
    { call_in.data[j].id :
        j \in { jj \in 1..Len(call_in.data) :
                  call_in.data[jj] \in {GoodContest, GoodRift} } }

\* C23 as stated: whatever malformed records a document holds (a null
\* attacker, a null goal, an element that is no object, missing fields),
\* the normalizer does not fail and the well-formed records of the document
\* are produced as candidates.
C23_MalformedRecordsDegrade ==
    call_out.done =>
        /\ call_out.val.ok
        /\ \A id \in GoodIds :
              \E j \in 1..Len(call_out.val.val) : call_out.val.val[j].oid = id


\* the instant the expiry of record r names, in seconds; -1 when the record
\* names none
ExpiryOf(r) == FromIso(Get(r, "expiry", ""))

\* the records of the document handed to the normalizer that a candidate
\* can come from: an object with the candidate's identity and, for an
\* arrival, the candidate's expiry
Origins(c) ==
    { r \in { call_in.data[j] : j \in 1..Len(call_in.data) } :
        /\ IsDict(r)
        /\ Get(r, "id", "") = c.oid
        /\ call_in.fn = "traders" =>
                c.exp_ms = (IF ExpiryOf(r) >= 0 THEN ExpiryOf(r) * 1000 ELSE 0) }

\* the expiry of record r is known and strictly before the call
ExpiredAtCall(r) == ExpiryOf(r) >= 0 /\ ExpiryOf(r) < call_in.clk

Relevant(r) ==
    CASE call_in.fn = "invasions" ->
           /\ Get(r, "completed", FALSE) = FALSE
           /\ \E side \in {"attacker", "defender"} :
                 /\ side \in DOMAIN r
                 /\ IsDict(r[side])
                 /\ _reward_is_rare(Get(r[side], "reward", EmptyObj)) = "T"
      [] call_in.fn = "fissures" ->
           /\ Get(r, "isHard", FALSE) = TRUE
           /\ MatchedLabel(LowerStr(Get(r, "node", << >>))) # ""
           /\ ~ExpiredAtCall(r)
      [] call_in.fn = "traders" -> ~ExpiredAtCall(r)

\* C24: every candidate a normalizer hands over comes from a record that
\* passed the relevance filter: a contest that is not completed and has a
\* rare reward, a hard rift at a listed node, and for rifts and arrivals no
\* known expiry strictly before the time of the call.
C24_CandidatesAreRelevant ==
    call_out.done =>
        \A j \in 1..Len(call_out.val.val) :
            /\ Origins(call_out.val.val[j]) # {}
            /\ \A r \in Origins(call_out.val.val[j]) : Relevant(r)

\* a rift that ended before the call was dropped from a document whose other
\* rift was kept
C24_Witness ==
    /\ call_out.done
    /\ call_in = [fn |-> "fissures", data |-> << EarlyRift, GoodRift >>,
                  clk |-> (StartDay + 2) * Day]
    /\ call_out.val = Returned(<< [oid |-> "r1", node_label |-> "Mot (Void)"] >>)


\* the arrival candidates of the running cycle that key k of category cat
\* belongs to
ArrivalsOf(cat, k) ==
    { j \in 1..Len(th[Main].traders) :
        k = (IF cat = "pre" THEN "vt_pre_" ELSE "vt_arrive_")
                \o th[Main].traders[j].oid }

MarkPcs == {"pre_mark", "arrive_mark", "inv_mark"}

\* the arrival and contest deliveries of the cycle whose marking is due
Delivered ==
    { j \in 1..Len(th[Main].sent) :
        /\ th[Main].sent[j].cat \in {"pre", "arrive", "contest"}
        /\ ~(j = Len(th[Main].sent) /\ th[Main].pc \in MarkPcs) }

\* the cycle leaves the position between a delivery call and its marking
MarkStep == th[Main].pc \in MarkPcs /\ th'[Main].pc # th[Main].pc

\* the cycle makes the delivery call of an arrival or contest event
AttemptStep ==
    /\ Len(th'[Main].sent) = Len(th[Main].sent) + 1
    /\ th'[Main].sent[Len(th'[Main].sent)].cat \in {"pre", "arrive", "contest"}

\* C26: the key of an arrival or contest event is marked as soon as its
\* delivery call has returned, whether the webhook accepted the post or not
\* (an error status, a rate limit that does not clear), and no delivery is
\* attempted for a key that is in the ledger.
C26_MarkedWhateverTheOutcome ==
    /\ [](\A j \in Delivered : th[Main].sent[j].key \in DOMAIN state)
    /\ [][(MarkStep =>
              th[Main].sent[Len(th[Main].sent)].key \in DOMAIN state')
           /\ (AttemptStep =>
              th'[Main].sent[Len(th'[Main].sent)].key \notin DOMAIN state)]_vars

\* the delivery call of a contest has returned without the webhook accepting
\* the post; the key of an arrival delivered earlier in the cycle is marked
C26_Witness ==
    /\ th[Main].pc = "inv_mark"
    /\ ~th[Main].last_ok
    /\ Len(th[Main].sent) >= 2
    /\ th[Main].sent[1].cat \in {"pre", "arrive"}
    /\ th[Main].sent[1].key \in DOMAIN state
    /\ th[Main].sent[Len(th[Main].sent)].key \notin DOMAIN state


\* a ledger entry disappears
Removal(k) == k \in DOMAIN state /\ k \notin DOMAIN state'

\* C27: two deliveries of one arrival or contest key are separated by a
\* purge of that key.  A delivery is made only for a key that is not in the
\* ledger, and, when the key was delivered before, only for one that was
\* purged; the key is in the ledger, with the time of the cycle, once the
\* delivery is marked; and an entry leaves the ledger only in the purge, and
\* only when it is more than 3 days (259200 s) old.
C27_RedeliveryOnlyAfterPurge ==
    [][/\ AttemptStep =>
            LET k == th'[Main].sent[Len(th'[Main].sent)].key IN
            /\ k \notin DOMAIN state
            /\ k \in DOMAIN nbCount => k \in purged
       /\ MarkStep =>
            LET k == th[Main].sent[Len(th[Main].sent)].key IN
            k \in DOMAIN state' /\ state'[k] = clock
       /\ \A k \in DOMAIN state :
            Removal(k) =>
                /\ th[Main].pc = "purge"
                /\ state[k] + 259200 < clock
                /\ k \in purged']_vars

\* the fixture's contest was delivered twice; the entry of the first delivery
\* was purged, the one of the second is in the ledger
C27_Witness ==
    /\ "a" \in DOMAIN nbCount
    /\ nbCount["a"] = 2
    /\ "a" \in purged
    /\ "a" \in DOMAIN state
    /\ state["a"] >= (StartDay + RetentionDays + 1) * Day
    /\ disk = OnDisk(state)


\* the timestamp of an entry that stays in the ledger changes
Restamped(k) ==
    k \in DOMAIN state /\ k \in DOMAIN state' /\ state'[k] # state[k]

\* C28: in the headless program the timestamp of an entry that is in the
\* ledger changes only when a rift wave marks that entry's key again; every
\* other entry keeps its timestamp for as long as it is in the ledger.  Each
\* rift with an identity that a wave delivers gets the current time.
C28_OnlyWaveRestamps ==
    [][/\ \A k \in DOMAIN state :
            Restamped(k) => (th[Main].pc = "fis_mark" /\ k = fis_key(Main))
       /\ (th[Main].pc = "fis_mark" /\ th'[Main].pc # "fis_mark") =>
            (fis_key(Main) # "" =>
                (fis_key(Main) \in DOMAIN state'
                 /\ state'[fis_key(Main)] = clock))]_vars

\* a wave stamped a rift again that the saved ledger holds with an older
\* time, while an entry of another category kept the time the file has
C28_Witness ==
    /\ th[Main].pc = "fis_post"
    /\ load_state(disk).ok
    /\ "r1" \in DOMAIN state \cap DOMAIN load_state(disk).val
    /\ state["r1"] = clock
    /\ load_state(disk).val["r1"] < clock
    /\ \E k \in DOMAIN state \cap DOMAIN load_state(disk).val :
          /\ k \in DOMAIN keyCats
          /\ keyCats[k] \cap {"pre", "arrive", "contest", "cycle"} # {}
          /\ state[k] = load_state(disk).val[k]
          /\ state[k] < clock


WaveStarts == th[Main].pc = "fissures" /\ th'[Main].pc = "fis_post"

\* C30: the empty string is never a key of the ledger; a contest without
\* identity is never delivered; a rift without identity is never what starts
\* a wave (a wave starts only when a rift with an identity is missing from
\* the ledger), though a wave delivers it with the others.
C30_NoEmptyKey ==
    /\ []("" \notin DOMAIN state)
    /\ [](\A j \in 1..Len(th[Main].sent) :
             th[Main].sent[j].cat = "contest" => th[Main].sent[j].key # "")
    /\ [][WaveStarts =>
            \E j \in 1..Len(th[Main].fissures) :
                /\ th[Main].fissures[j].oid # ""
                /\ th[Main].fissures[j].oid \notin DOMAIN state]_vars

\* a wave has delivered a rift without identity and marked the rift that
\* started it
C30_Witness ==
    /\ th[Main].pc = "weather"
    /\ \E j \in 1..Len(th[Main].sent) :
          th[Main].sent[j] = [cat |-> "rift", key |-> ""]
    /\ th[Main].new_fissures # << >>
    /\ \A j \in 1..Len(th[Main].new_fissures) :
          th[Main].new_fissures[j].oid \in DOMAIN state
    /\ "" \notin DOMAIN state


\* the entries fetch_weather makes of what the root endpoint serves now
Observed == fetch_weather(_get(upstream["weather"]))

\* every entry fetch_weather makes of a document the root endpoint serves
Entries ==
    UNION { { fetch_weather(d)[j] : j \in 1..Len(fetch_weather(d)) } :
              d \in WeatherDocs }

\* the keys the entries of the domains other than Earth day/night would get
OtherDomainKeys == { weather_key(w) : w \in { e \in Entries : e.planet # "Earth" } }

\* C31: whatever the root endpoint reports for the plains, Venus and Cambion
\* cycles, no notification is delivered for them and no key of theirs is
\* written: the ledger holds none of their keys, and every cycle
\* notification of a running cycle carries the key of an Earth day/night
\* entry.
C31_EarthCycleOnly ==
    /\ DOMAIN state \cap OtherDomainKeys = {}
    /\ \A j \in 1..Len(th[Main].sent) :
          th[Main].sent[j].cat = "cycle" =>
              /\ th[Main].sent[j].key \notin OtherDomainKeys
              /\ \E e \in Entries :
                    e.planet = "Earth" /\ th[Main].sent[j].key = weather_key(e)
    /\ \A k \in DOMAIN keyCats :
          "cycle" \in keyCats[k] => k \notin OtherDomainKeys

\* the weather stage is over on a document that reports Venus and Cambion
\* next to Earth: the Earth night was delivered and marked, nothing else
C31_Witness ==
    /\ th[Main].pc = "purge"
    /\ Len(Observed) = 3
    /\ \E j \in 1..Len(Observed) : Observed[j].planet = "Venus"
    /\ \E j \in 1..Len(Observed) : Observed[j].planet = "Mars"
    /\ Len(th[Main].earth_weather) = 1
    /\ th[Main].sent # << >>
    /\ th[Main].sent[Len(th[Main].sent)] =
           [cat |-> "cycle", key |-> weather_key(th[Main].earth_weather[1])]
    /\ weather_key(th[Main].earth_weather[1]) \in DOMAIN state
    /\ OtherDomainKeys # {}

=============================================================================
